---------------------------- MODULE Spec2Model ----------------------------
(***************************************************************************)
(* The evaluation core of tlang: the runtime value model                   *)
(* (src/executer/value/mod.rs) and the tree-walking evaluator              *)
(* Vm::eval_expr (src/executer/vm.rs).                                     *)
(*                                                                         *)
(* An expression node is a record with a field k naming its kind; a value  *)
(* is a record with a field t naming its variant.  The user mapping of a   *)
(* Vm (field 0 of the struct) is a function from the bound identifiers to  *)
(* their values; the builtin table (field 1) never changes after Vm::new.  *)
(* Text written by print!/println! is collected in a string.  A Rust panic *)
(* (todo!(), an out-of-range index or slice) is a third kind of result     *)
(* beside Ok and Err.                                                      *)
(***************************************************************************)
EXTENDS Integers, Sequences, FiniteSets, TLC

VARIABLES vm, expr, before, res, stdout, steps

vars == <<vm, expr, before, res, stdout, steps>>

(***************************************************************************)
(* Bounds of the model.                                                    *)
(***************************************************************************)
\* number of top-level evaluations made on one Vm
MaxSteps == 3
\* length of the list the programs build, and reach of the indices into it
MaxList == 3
\* largest end of a For range
MaxRange == 3

(***************************************************************************)
(* f64.  A Number is sg * num / den with num, den >= 0 in lowest terms;    *)
(* den = 0 is an infinity (num = 1) or NaN (num = 0); zero keeps its sign. *)
(* Exact on the rationals of the model's range, where f64 rounds.          *)
(***************************************************************************)
RECURSIVE Gcd(_, _)
Gcd(a, b) == IF b = 0 THEN a ELSE Gcd(b, a % b)

Number(sg, num, den) ==
    IF den = 0
    THEN IF num = 0
         THEN [t |-> "Number", sg |-> 1, num |-> 0, den |-> 0]
         ELSE [t |-> "Number", sg |-> sg, num |-> 1, den |-> 0]
    ELSE LET g == Gcd(num, den)
         IN  [t |-> "Number", sg |-> sg, num |-> num \div g, den |-> den \div g]

Abs(i) == IF i < 0 THEN -i ELSE i

\* the f64 of an integer literal
Num(i) == Number(IF i < 0 THEN -1 ELSE 1, Abs(i), 1)

NaN == Number(1, 0, 0)

IsNaN(a) == a.den = 0 /\ a.num = 0
IsInf(a) == a.den = 0 /\ a.num = 1
IsZero(a) == a.den # 0 /\ a.num = 0

Neg(a) == [a EXCEPT !.sg = IF IsNaN(a) THEN 1 ELSE -a.sg]

\* a + b
FAdd(a, b) ==
    IF IsNaN(a) \/ IsNaN(b) THEN NaN
    ELSE IF IsInf(a) /\ IsInf(b) THEN (IF a.sg = b.sg THEN a ELSE NaN)
    ELSE IF IsInf(a) THEN a
    ELSE IF IsInf(b) THEN b
    ELSE LET n == a.sg * a.num * b.den + b.sg * b.num * a.den
         IN  IF n = 0
             THEN Number(IF a.sg = -1 /\ b.sg = -1 /\ IsZero(a) /\ IsZero(b)
                         THEN -1 ELSE 1, 0, 1)
             ELSE Number(IF n < 0 THEN -1 ELSE 1, Abs(n), a.den * b.den)

\* a - b
FSub(a, b) == FAdd(a, Neg(b))

\* a * b
FMul(a, b) == Number(a.sg * b.sg, a.num * b.num, a.den * b.den)

\* a / b
FDiv(a, b) == Number(a.sg * b.sg, a.num * b.den, a.den * b.num)

\* a % b (fmod: the sign of the dividend)
FRem(a, b) ==
    IF IsNaN(a) \/ IsNaN(b) \/ IsInf(a) \/ IsZero(b) THEN NaN
    ELSE IF IsInf(b) THEN a
    ELSE LET q == (a.num * b.den) \div (a.den * b.num)
         IN  Number(a.sg, a.num * b.den - q * b.num * a.den, a.den * b.den)

\* a < b
FLt(a, b) ==
    IF IsNaN(a) \/ IsNaN(b) THEN FALSE
    ELSE IF IsInf(a) /\ IsInf(b) THEN a.sg < b.sg
    ELSE IF IsInf(a) THEN a.sg = -1
    ELSE IF IsInf(b) THEN b.sg = 1
    ELSE a.sg * a.num * b.den < b.sg * b.num * a.den

\* a == b
FEq(a, b) ==
    /\ ~IsNaN(a)
    /\ ~IsNaN(b)
    /\ \/ IsZero(a) /\ IsZero(b)
       \/ (a.sg = b.sg /\ a.num = b.num /\ a.den = b.den)

\* isize::MAX = 2^63 - 1 and isize::MIN.  TLC's integers have 32
\* bits, so a smaller number stands for isize::MAX: it is above every list
\* length and every finite number of the model, and it leaves room for the
\* usize values above it, which is all the comparisons of the code depend on.
IsizeMax == 1000000000
IsizeMin == -IsizeMax - 1

\* `n as isize` of an f64: truncation toward zero, NaN to 0, saturating
AsIsize(a) ==
    IF IsNaN(a) THEN 0
    ELSE IF IsInf(a) THEN (IF a.sg = 1 THEN IsizeMax ELSE IsizeMin)
    ELSE a.sg * (a.num \div a.den)

\* `n as usize` of an f64: as above, negative values to 0
AsUsize(a) == IF AsIsize(a) < 0 THEN 0 ELSE AsIsize(a)

\* `n as i32` of an f64: as above, saturating at the i32 limits
AsI32(a) ==
    IF IsNaN(a) THEN 0
    ELSE IF IsInf(a) THEN (IF a.sg = 1 THEN 2147483647 ELSE -2147483647 - 1)
    ELSE a.sg * (a.num \div a.den)

\* `i as usize` of an isize: two's complement, so a negative value lands
\* above every isize, in the order of the negative values
IsizeAsUsize(i) == IF i < 0 THEN IsizeMax + (1 + (i - IsizeMin)) ELSE i

\* `i as i32` of an isize: the low 32 bits
IsizeAsI32(i) == IF i = IsizeMax THEN -1 ELSE IF i = IsizeMin THEN 0 ELSE i

Digits == <<"0", "1", "2", "3", "4", "5", "6", "7", "8", "9">>

RECURSIVE NatText(_)
NatText(n) ==
    IF n < 10 THEN Digits[n + 1] ELSE NatText(n \div 10) \o Digits[(n % 10) + 1]

\* i32::to_string (the negation of i32::MIN does not fit TLC's integers)
IntText(i) ==
    IF i = -2147483647 - 1 THEN "-2147483648"
    ELSE IF i < 0 THEN "-" \o NatText(-i) ELSE NatText(i)

\* the digits after the decimal point of r / den, r < den
RECURSIVE FracText(_, _, _)
FracText(r, den, left) ==
    IF r = 0 \/ left = 0 THEN ""
    ELSE Digits[((10 * r) \div den) + 1] \o FracText((10 * r) % den, den, left - 1)

\* the longest fraction f64::to_string prints for a value below 1
FracDigits == 16

\* f64::to_string
NumText(a) ==
    IF IsNaN(a) THEN "NaN"
    ELSE IF IsInf(a) THEN (IF a.sg = -1 THEN "-inf" ELSE "inf")
    ELSE (IF a.sg = -1 THEN "-" ELSE "")
         \o NatText(a.num \div a.den)
         \o (IF a.num % a.den = 0 THEN ""
             ELSE "." \o FracText(a.num % a.den, a.den, FracDigits))


(***************************************************************************)
(* Value (value/mod.rs:38).  Enum and EnumCall have no construction path   *)
(* in the evaluator and are left out.                                      *)
(***************************************************************************)
String(s) == [t |-> "String", s |-> s]
Bool(b) == [t |-> "Bool", b |-> b]
None == [t |-> "None"]
List(items) == [t |-> "List", items |-> items]
Range(start, end) == [t |-> "Range", start |-> start, end |-> end]
Function(name, args, body) ==
    [t |-> "Function", name |-> name, args |-> args, body |-> body]
DefStruct(name, fields, function) ==
    [t |-> "DefStruct", name |-> name, fields |-> fields, function |-> function]
CallStruct(name, fields) == [t |-> "CallStruct", name |-> name, fields |-> fields]

\* HashMap::new()
EmptyMap == <<>>

\* HashMap::insert
Insert(map, key, value) == (key :> value) @@ map

(***************************************************************************)
(* Result<Value, Error>, and the panic that unwinds past every `?`.        *)
(***************************************************************************)
Ok(v) == [ok |-> "Ok", v |-> v]
Err(error, a, b) == [ok |-> "Err", error |-> error, a |-> a, b |-> b]
Panic(msg) == [ok |-> "Panic", msg |-> msg]

\* `let s = x; F(s)`: x is evaluated once and F continues with its value
Then(x, F(_)) == CHOOSE y \in { F(s) : s \in {x} } : TRUE

\* the rendered text of a value, or the panic of todo!()
Text(s) == [ok |-> "Ok", s |-> s]

RECURSIVE display_value(_)
RECURSIVE display_items(_, _, _)

\* the loop of the List arm of display_value
display_items(list, i, s) ==
    IF i > Len(list) THEN Text(s \o "]")
    ELSE Then(display_value(list[i]), LAMBDA item :
           IF item.ok # "Ok" THEN item
           ELSE display_items(list, i + 1,
                              s \o (IF i > 1 THEN ", " ELSE "") \o item.s))

display_value(v) ==
    CASE v.t = "Number" -> Text(NumText(v))
      [] v.t = "String" -> Text(v.s)
      [] v.t = "Bool" -> Text(IF v.b THEN "true" ELSE "false")
      [] v.t = "Function" -> Text("function")
      [] v.t = "List" -> display_items(v.items, 1, "[")
      [] v.t = "Range" -> Text("range")
      [] v.t = "None" -> Text("None")
      [] v.t = "DefStruct" -> Panic("not yet implemented")
      [] v.t = "CallStruct" -> Panic("not yet implemented")

\* impl fmt::Display for Value
to_string(v) == display_value(v)

\* the Type descriptor, as the text the error carries
get_type(v) ==
    CASE v.t = "Number" -> "Int"
      [] v.t = "String" -> "String"
      [] v.t = "Bool" -> "Bool"
      [] v.t = "Function" -> "Func"
      [] v.t = "List" -> "List"
      [] v.t = "Range" -> "Range"
      [] v.t = "CallStruct" -> "FieldStruct(" \o v.name \o ")"
      [] v.t = "DefStruct" -> "Struct(" \o v.name \o ")"
      [] v.t = "None" -> "None"

\* Err(Error::CannotX(CannotXError { left: self.to_string(), right: other.to_string() }))
Cannot(error, self, other) ==
    Then(to_string(self), LAMBDA left :
      IF left.ok # "Ok" THEN left
      ELSE Then(to_string(other), LAMBDA right :
             IF right.ok # "Ok" THEN right
             ELSE Err(error, left.s, right.s)))

BothNumber(self, other) == self.t = "Number" /\ other.t = "Number"

add(self, other) ==
    IF BothNumber(self, other) THEN Ok(FAdd(self, other))
    ELSE Cannot("CannotAdd", self, other)

sub(self, other) ==
    IF BothNumber(self, other) THEN Ok(FSub(self, other))
    ELSE Cannot("CannotSub", self, other)

mul(self, other) ==
    IF BothNumber(self, other) THEN Ok(FMul(self, other))
    ELSE Cannot("CannotMul", self, other)

div(self, other) ==
    IF BothNumber(self, other) THEN Ok(FDiv(self, other))
    ELSE Cannot("CannotDiv", self, other)

modulo(self, other) ==
    IF BothNumber(self, other) THEN Ok(FRem(self, other))
    ELSE Cannot("CannotMod", self, other)

eq(self, other) ==
    IF BothNumber(self, other) THEN Ok(Bool(FEq(self, other)))
    ELSE IF self.t = "String" /\ other.t = "String" THEN Ok(Bool(self.s = other.s))
    ELSE IF self.t = "Bool" /\ other.t = "Bool" THEN Ok(Bool(self.b = other.b))
    ELSE Cannot("CannotCompare", self, other)

neq(self, other) ==
    IF BothNumber(self, other) THEN Ok(Bool(~FEq(self, other)))
    ELSE IF self.t = "String" /\ other.t = "String" THEN Ok(Bool(self.s # other.s))
    ELSE IF self.t = "Bool" /\ other.t = "Bool" THEN Ok(Bool(self.b # other.b))
    ELSE Cannot("CannotCompare", self, other)

gt(self, other) ==
    IF BothNumber(self, other) THEN Ok(Bool(FLt(other, self)))
    ELSE Cannot("CannotCompare", self, other)

lt(self, other) ==
    IF BothNumber(self, other) THEN Ok(Bool(FLt(self, other)))
    ELSE Cannot("CannotCompare", self, other)

ge(self, other) ==
    IF BothNumber(self, other) THEN Ok(Bool(FLt(other, self) \/ FEq(self, other)))
    ELSE Cannot("CannotCompare", self, other)

le(self, other) ==
    IF BothNumber(self, other) THEN Ok(Bool(FLt(self, other) \/ FEq(self, other)))
    ELSE Cannot("CannotCompare", self, other)

and(self, other) ==
    IF self.t = "Bool" /\ other.t = "Bool" THEN Ok(Bool(self.b /\ other.b))
    ELSE Cannot("CannotCompare", self, other)

or(self, other) ==
    IF self.t = "Bool" /\ other.t = "Bool" THEN Ok(Bool(self.b \/ other.b))
    ELSE Cannot("CannotCompare", self, other)

(***************************************************************************)
(* Expr: the nodes eval_expr matches on.                                   *)
(***************************************************************************)
ExprEmpty == [k |-> "Empty"]
ExprBlock(body) == [k |-> "Block", body |-> body]
ExprLiteral(value) == [k |-> "Literal", value |-> value]
ExprIdent(ident) == [k |-> "Ident", ident |-> ident]
ExprBinOp(op, left, right) == [k |-> "BinOp", op |-> op, left |-> left, right |-> right]
ExprIfThen(cond, then) == [k |-> "IfThen", cond |-> cond, then |-> then]
ExprIfThenElse(cond, then, else_) ==
    [k |-> "IfThenElse", cond |-> cond, then |-> then, else_ |-> else_]
ExprAssign(name, value) == [k |-> "Assign", name |-> name, value |-> value]
ExprWhile(cond, body) == [k |-> "While", cond |-> cond, body |-> body]
ExprFor(name, iter, body) == [k |-> "For", name |-> name, iter |-> iter, body |-> body]
ExprFunDef(name, args, body) == [k |-> "FunDef", name |-> name, args |-> args, body |-> body]
ExprCall(name, args) == [k |-> "Call", name |-> name, args |-> args]
ExprList(elems) == [k |-> "List", elems |-> elems]
ExprIndex(name, index) == [k |-> "Index", name |-> name, index |-> index]
ExprRange(start, end) == [k |-> "Range", start |-> start, end |-> end]
ExprStructDef(name, fields) == [k |-> "StructDef", name |-> name, fields |-> fields]
\* args: the (field, value) pairs, each [arg |-> Expr, value |-> Expr]
ExprCallStruct(name, args) == [k |-> "CallStruct", name |-> name, args |-> args]
ExprGetAttr(name, attr) == [k |-> "GetAttr", name |-> name, attr |-> attr]
ExprImpl(name_struct, name_method, args, body) ==
    [k |-> "Impl", name_struct |-> name_struct, name_method |-> name_method,
     args |-> args, body |-> body]
ExprGetFunc(name, func, args) == [k |-> "GetFunc", name |-> name, func |-> func, args |-> args]
ExprSetVar(name, value) == [k |-> "SetVar", name |-> name, value |-> value]
ExprIOp(op, name, value) == [k |-> "IOp", op |-> op, name |-> name, value |-> value]
\* cases: the (pattern, body) pairs, each [pat |-> Expr, body |-> Expr]
ExprMatch(value, cases) == [k |-> "Match", value |-> value, cases |-> cases]

(***************************************************************************)
(* Vm.  self is the user mapping; the builtin table is the same in every   *)
(* Vm.  An evaluation returns its result, the user mapping it leaves and   *)
(* the text written so far.                                                *)
(***************************************************************************)
\* the keys of map_builtins
Builtins == {"print", "println"}

\* the user mapping of Vm::new()
Vm_new == EmptyMap

set_ident(self, ident, value) == Insert(self, ident, value)

exists(self, ident) == ident \in DOMAIN self

Ret(r, self, out) == [r |-> r, vm |-> self, out |-> out]

TypeMismatch(expected, found) == Err("TypeMismatch", expected, found)

\* every element of a parameter or field list is an Expr::Ident
AllIdent(args) == \A i \in 1..Len(args) : args[i].k = "Ident"

\* the Vec<Ident> collected from such a list
Idents(args) == [i \in 1..Len(args) |-> args[i].ident]

RECURSIVE eval_expr(_, _, _)

(***************************************************************************)
(* The arms of eval_expr.                                                  *)
(***************************************************************************)
\* faulty variant of block_loop: the sub-expressions after a failed one are
\* still evaluated
RECURSIVE block_loop_resilient(_, _, _, _, _)
block_loop_resilient(body, i, last, self, out) ==
    IF i > Len(body) THEN Ret(Ok(last), self, out)
    ELSE Then(eval_expr(body[i], self, out), LAMBDA s :
           IF s.r.ok = "Panic" THEN s
           ELSE IF s.r.ok = "Err" /\ i = Len(body) THEN s
           ELSE block_loop_resilient(body, i + 1,
                                     IF s.r.ok = "Ok" THEN s.r.v ELSE last, s.vm, s.out))

\* Expr::Block: the loop over body from position i
RECURSIVE block_loop(_, _, _, _, _)
block_loop(body, i, last, self, out) ==
    IF i > Len(body) THEN Ret(Ok(last), self, out)
    ELSE Then(eval_expr(body[i], self, out), LAMBDA s :
           IF s.r.ok # "Ok" THEN s
           ELSE block_loop(body, i + 1, s.r.v, s.vm, s.out))

eval_Block(body, self, out) == block_loop(body, 1, None, self, out)

eval_Literal(value, self, out) ==
    Ret(Ok(CASE value.t = "Number" -> Number(value.sg, value.num, value.den)
             [] value.t = "String" -> String(value.s)
             [] value.t = "Bool" -> Bool(value.b)),
        self, out)

eval_Ident(ident, self, out) ==
    IF exists(self, ident) THEN Ret(Ok(self[ident]), self, out)
    ELSE Ret(Err("VarNotFound", ident, ""), self, out)

\* the match on op of Expr::BinOp
bin_op(op, left, right) ==
    CASE op = "Add" -> add(left, right)
      [] op = "Sub" -> sub(left, right)
      [] op = "Mul" -> mul(left, right)
      [] op = "Div" -> div(left, right)
      [] op = "Mod" -> modulo(left, right)
      [] op = "Eq" -> eq(left, right)
      [] op = "Neq" -> neq(left, right)
      [] op = "Gt" -> gt(left, right)
      [] op = "Lt" -> lt(left, right)
      [] op = "Ge" -> ge(left, right)
      [] op = "Le" -> le(left, right)
      [] op = "And" -> and(left, right)
      [] op = "Or" -> or(left, right)

eval_BinOp(op, left, right, self, out) ==
    Then(eval_expr(left, self, out), LAMBDA l :
      IF l.r.ok # "Ok" THEN l
      ELSE Then(eval_expr(right, l.vm, l.out), LAMBDA r :
             IF r.r.ok # "Ok" THEN r
             ELSE Ret(bin_op(op, l.r.v, r.r.v), r.vm, r.out)))

eval_IfThen(cond, then, self, out) ==
    Then(eval_expr(cond, self, out), LAMBDA c :
      IF c.r.ok # "Ok" THEN c
      ELSE IF c.r.v.t = "Bool"
           THEN IF c.r.v.b THEN eval_expr(then, c.vm, c.out)
                ELSE Ret(Ok(None), c.vm, c.out)
           ELSE Ret(TypeMismatch("bool", get_type(c.r.v)), c.vm, c.out))

eval_IfThenElse(cond, then, else_, self, out) ==
    Then(eval_expr(cond, self, out), LAMBDA c :
      IF c.r.ok # "Ok" THEN c
      ELSE IF c.r.v.t = "Bool"
           THEN IF c.r.v.b THEN eval_expr(then, c.vm, c.out)
                ELSE eval_expr(else_, c.vm, c.out)
           ELSE Ret(TypeMismatch("bool", get_type(c.r.v)), c.vm, c.out))

\* faulty variant of eval_Assign: no test that the name is unbound
eval_Assign_overwrite(name, value, self, out) ==
    Then(eval_expr(value, self, out), LAMBDA v :
      IF v.r.ok # "Ok" THEN v
      ELSE Ret(Ok(None), set_ident(v.vm, name, v.r.v), v.out))

eval_Assign(name, value, self, out) ==
    Then(eval_expr(value, self, out), LAMBDA v :
      IF v.r.ok # "Ok" THEN v
      ELSE IF exists(v.vm, name)
           THEN Ret(Err("VarAlreadyDefined", name, ""), v.vm, v.out)
           ELSE Ret(Ok(None), set_ident(v.vm, name, v.r.v), v.out))

\* faulty variant of while_loop: a condition that is not a Bool is an error
RECURSIVE while_loop_typed(_, _, _, _)
while_loop_typed(cond, body, self, out) ==
    Then(eval_expr(cond, self, out), LAMBDA c :
      IF c.r.ok # "Ok" THEN c
      ELSE IF c.r.v.t # "Bool"
           THEN Ret(TypeMismatch("bool", get_type(c.r.v)), c.vm, c.out)
      ELSE IF c.r.v.b
           THEN Then(eval_expr(body, c.vm, c.out), LAMBDA b :
                  IF b.r.ok # "Ok" THEN b
                  ELSE while_loop_typed(cond, body, b.vm, b.out))
           ELSE Ret(Ok(None), c.vm, c.out))

\* Expr::While: one turn of the loop and the turns after it
RECURSIVE while_loop(_, _, _, _)
while_loop(cond, body, self, out) ==
    Then(eval_expr(cond, self, out), LAMBDA c :
      IF c.r.ok # "Ok" THEN c
      ELSE IF c.r.v.t = "Bool" /\ c.r.v.b
           THEN Then(eval_expr(body, c.vm, c.out), LAMBDA b :
                  IF b.r.ok # "Ok" THEN b
                  ELSE while_loop(cond, body, b.vm, b.out))
           ELSE Ret(Ok(None), c.vm, c.out))

eval_While(cond, body, self, out) == while_loop(cond, body, self, out)

\* Expr::For over a List: the loop from item i
RECURSIVE for_list(_, _, _, _, _, _, _)
for_list(name_str, l, i, last, body, self, out) ==
    IF i > Len(l) THEN Ret(Ok(last), self, out)
    ELSE Then(eval_expr(body, set_ident(self, name_str, l[i]), out), LAMBDA b :
           IF b.r.ok # "Ok" THEN b
           ELSE for_list(name_str, l, i + 1, b.r.v, body, b.vm, b.out))

\* faulty variant of for_range: the end of the range is included
RECURSIVE for_range_inclusive(_, _, _, _, _, _, _)
for_range_inclusive(name_str, i, end, last, body, self, out) ==
    IF i > end THEN Ret(Ok(last), self, out)
    ELSE Then(eval_expr(body, set_ident(self, name_str, Num(i)), out), LAMBDA b :
           IF b.r.ok # "Ok" THEN b
           ELSE for_range_inclusive(name_str, i + 1, end, b.r.v, body, b.vm, b.out))

\* Expr::For over a Range: the loop from integer i
RECURSIVE for_range(_, _, _, _, _, _, _)
for_range(name_str, i, end, last, body, self, out) ==
    IF i >= end THEN Ret(Ok(last), self, out)
    ELSE Then(eval_expr(body, set_ident(self, name_str, Num(i)), out), LAMBDA b :
           IF b.r.ok # "Ok" THEN b
           ELSE for_range(name_str, i + 1, end, b.r.v, body, b.vm, b.out))

eval_For(name, iter, body, self, out) ==
    IF name.k # "Ident" THEN Ret(TypeMismatch("string", "ident"), self, out)
    ELSE Then(eval_expr(iter, self, out), LAMBDA it :
           IF it.r.ok # "Ok" THEN it
           ELSE IF it.r.v.t = "List"
                THEN for_list(name.ident, it.r.v.items, 1, None, body, it.vm, it.out)
           ELSE IF it.r.v.t = "Range"
                THEN for_range(name.ident, it.r.v.start, it.r.v.end, None, body,
                               it.vm, it.out)
           ELSE Ret(TypeMismatch("list", get_type(it.r.v)), it.vm, it.out))

eval_FunDef(name, args, body, self, out) ==
    IF name \in Builtins THEN Ret(Err("IsBuiltin", name, ""), self, out)
    ELSE IF ~AllIdent(args) THEN Ret(TypeMismatch("ident", "unknown"), self, out)
    ELSE Ret(Ok(Function(name, Idents(args), body)),
             set_ident(self, name, Function(name, Idents(args), body)), out)

\* the loop `for i in args { print!("{}", i.display_value()) }`
RECURSIVE print_loop(_, _, _)
print_loop(args, i, out) ==
    IF i > Len(args) THEN [r |-> Ok(None), out |-> out]
    ELSE Then(display_value(args[i]), LAMBDA d :
           IF d.ok # "Ok" THEN [r |-> d, out |-> out]
           ELSE print_loop(args, i + 1, out \o d.s))

\* Vm::print
print(args, out) == print_loop(args, 1, out)

\* Vm::println
println(args, out) ==
    Then(print_loop(args, 1, out), LAMBDA p :
      IF p.r.ok # "Ok" THEN p ELSE [r |-> Ok(None), out |-> p.out \o "\n"])

\* faulty variant of builtin_args: the error of an argument ends the call
RECURSIVE builtin_args_strict(_, _, _, _, _)
builtin_args_strict(args, i, vals, self, out) ==
    IF i > Len(args) THEN Ret(Ok(vals), self, out)
    ELSE Then(eval_expr(args[i], self, out), LAMBDA a :
           IF a.r.ok # "Ok" THEN a
           ELSE builtin_args_strict(args, i + 1, Append(vals, a.r.v), a.vm, a.out))

\* Expr::Call, builtin branch: the map over the arguments, an Err made None
RECURSIVE builtin_args(_, _, _, _, _)
builtin_args(args, i, vals, self, out) ==
    IF i > Len(args) THEN Ret(Ok(vals), self, out)
    ELSE Then(eval_expr(args[i], self, out), LAMBDA a :
           IF a.r.ok = "Panic" THEN a
           ELSE builtin_args(args, i + 1,
                             Append(vals, IF a.r.ok = "Ok" THEN a.r.v ELSE None),
                             a.vm, a.out))

call_builtin(name, args, self, out) ==
    Then(builtin_args(args, 1, <<>>, self, out), LAMBDA a :
      IF a.r.ok # "Ok" THEN a
      ELSE Then(IF name = "print" THEN print(a.r.v, a.out) ELSE println(a.r.v, a.out),
                LAMBDA v : Ret(v.r, a.vm, v.out)))

\* faulty variant of call_vm: the callee starts without the function
call_vm_anonymous(f, self) == Vm_new

\* faulty variant of call_vm: the callee starts from a copy of the caller's mapping
call_vm_inherit(f, self) == set_ident(self, f.name, f)

\* Expr::Call, user branch: new_vm before the parameters are bound
call_vm(f, self) == set_ident(Vm_new, f.name, f)

\* faulty variant of call_bind: a parameter without an argument is left unbound
RECURSIVE call_bind_lenient(_, _, _, _, _, _)
call_bind_lenient(params, cparg, i, new_vm, self, out) ==
    IF i > Len(params) \/ i > Len(cparg) THEN Ret(Ok(new_vm), self, out)
    ELSE Then(eval_expr(cparg[i], self, out), LAMBDA a :
           IF a.r.ok # "Ok" THEN a
           ELSE call_bind_lenient(params, cparg, i + 1,
                                  set_ident(new_vm, params[i], a.r.v), a.vm, a.out))

\* Expr::Call, user branch: the loop binding parameter i and those after it;
\* cparg[i] panics when the call has no argument i
RECURSIVE call_bind(_, _, _, _, _, _)
call_bind(params, cparg, i, new_vm, self, out) ==
    IF i > Len(params) THEN Ret(Ok(new_vm), self, out)
    ELSE IF i > Len(cparg) THEN Ret(Panic("index out of bounds"), self, out)
    ELSE Then(eval_expr(cparg[i], self, out), LAMBDA a :
           IF a.r.ok # "Ok" THEN a
           ELSE call_bind(params, cparg, i + 1,
                          set_ident(new_vm, params[i], a.r.v), a.vm, a.out))

\* faulty variant of call_user: the body runs on the caller's environment
call_user_shared(name, args, self, out) ==
    IF ~exists(self, name) THEN Ret(Err("FunctionNotFound", name, ""), self, out)
    ELSE IF self[name].t # "Function"
    THEN Ret(TypeMismatch("function", get_type(self[name])), self, out)
    ELSE Then(call_bind(self[name].args, args, 1, call_vm(self[name], self), self, out),
              LAMBDA b :
           IF b.r.ok # "Ok" THEN b
           ELSE eval_expr(self[name].body, b.r.v @@ b.vm, b.out))

call_user(name, args, self, out) ==
    IF ~exists(self, name) THEN Ret(Err("FunctionNotFound", name, ""), self, out)
    ELSE IF self[name].t # "Function"
    THEN Ret(TypeMismatch("function", get_type(self[name])), self, out)
    ELSE Then(call_bind(self[name].args, args, 1, call_vm(self[name], self), self, out),
              LAMBDA b :
           IF b.r.ok # "Ok" THEN b
           ELSE Then(eval_expr(self[name].body, b.r.v, b.out), LAMBDA body :
                  Ret(body.r, b.vm, body.out)))

\* faulty variant of eval_Call: the user mapping is looked up before the builtins
eval_Call_user_first(name, args, self, out) ==
    IF exists(self, name) \/ name \notin Builtins THEN call_user(name, args, self, out)
    ELSE call_builtin(name, args, self, out)

eval_Call(name, args, self, out) ==
    IF name \in Builtins THEN call_builtin(name, args, self, out)
    ELSE call_user(name, args, self, out)

\* Expr::List: the loop from element i
RECURSIVE list_loop(_, _, _, _, _)
list_loop(elems, i, list, self, out) ==
    IF i > Len(elems) THEN Ret(Ok(List(list)), self, out)
    ELSE Then(eval_expr(elems[i], self, out), LAMBDA e :
           IF e.r.ok # "Ok" THEN e
           ELSE list_loop(elems, i + 1, Append(list, e.r.v), e.vm, e.out))

eval_List(elems, self, out) == list_loop(elems, 1, <<>>, self, out)

\* faulty variant of index_number: no test for a negative index
index_number_unsigned(real_name, list, num) ==
    IF AsUsize(num) >= Len(list)
    THEN Err("IndexOutOfBounds", real_name, IntText(AsI32(num)))
    ELSE Ok(list[AsUsize(num) + 1])

\* Expr::Index, the Value::Number arm
index_number(real_name, list, num) ==
    IF FLt(num, Num(0))
    THEN Err("IndexOutOfBounds", real_name, IntText(AsI32(num)))
    ELSE IF AsUsize(num) >= Len(list)
    THEN Err("IndexOutOfBounds", real_name, IntText(AsI32(num)))
    ELSE Ok(list[AsUsize(num) + 1])

\* list[start..end] of a Vec: the slice, or the panic of its bounds check
slice(list, start, end) ==
    IF start > end THEN Panic("slice index starts after its end")
    ELSE IF end > Len(list) THEN Panic("range end index out of range for slice")
    ELSE Ok(List(SubSeq(list, start + 1, end)))

\* Expr::Index, the Value::Range arm
index_range(real_name, list, r) ==
    IF r.start >= Len(list)
    THEN Err("IndexOutOfBounds", real_name, IntText(IsizeAsI32(r.start)))
    ELSE IF r.end > Len(list)
    THEN Err("IndexOutOfBounds", real_name, IntText(IsizeAsI32(r.end)))
    ELSE slice(list, IsizeAsUsize(r.start), IsizeAsUsize(r.end))

eval_Index(name, index, self, out) ==
    IF name.k # "Ident" THEN Ret(TypeMismatch("ident", "unknown"), self, out)
    ELSE IF ~exists(self, name.ident)
    THEN Ret(Err("VarNotFound", name.ident, ""), self, out)
    ELSE IF self[name.ident].t # "List"
    THEN Ret(TypeMismatch("list", get_type(self[name.ident])), self, out)
    ELSE Then(eval_expr(index, self, out), LAMBDA ix :
           IF ix.r.ok # "Ok" THEN ix
           ELSE IF ix.r.v.t = "Number"
                THEN Ret(index_number(name.ident, self[name.ident].items, ix.r.v),
                         ix.vm, ix.out)
           ELSE IF ix.r.v.t = "Range"
                THEN Ret(index_range(name.ident, self[name.ident].items, ix.r.v),
                         ix.vm, ix.out)
           ELSE Ret(TypeMismatch("number", get_type(ix.r.v)), ix.vm, ix.out))

eval_Range(start, end, self, out) ==
    Then(eval_expr(start, self, out), LAMBDA s :
      IF s.r.ok # "Ok" THEN s
      ELSE Then(eval_expr(end, s.vm, s.out), LAMBDA e :
             IF e.r.ok # "Ok" THEN e
             ELSE IF s.r.v.t # "Number"
                  THEN Ret(TypeMismatch("number", get_type(s.r.v)), e.vm, e.out)
             ELSE IF e.r.v.t # "Number"
                  THEN Ret(TypeMismatch("number", get_type(e.r.v)), e.vm, e.out)
             ELSE Ret(Ok(Range(AsIsize(s.r.v), AsIsize(e.r.v))), e.vm, e.out)))

eval_StructDef(name, fields, self, out) ==
    IF ~AllIdent(fields) THEN Ret(TypeMismatch("ident", "unknown"), self, out)
    ELSE Ret(Ok(None), set_ident(self, name, DefStruct(name, Idents(fields), EmptyMap)),
             out)

\* faulty variant of callstruct_fields: the pair is kept whatever the declared fields
callstruct_fields_any(fields, j, a, value, map, self, out) ==
    Then(eval_expr(value, self, out), LAMBDA v :
      IF v.r.ok # "Ok" THEN v
      ELSE Ret(Ok(Insert(map, a, v.r.v)), v.vm, v.out))

\* Expr::CallStruct: `for field in fields`, from field j, for the pair named a
RECURSIVE callstruct_fields(_, _, _, _, _, _, _)
callstruct_fields(fields, j, a, value, map, self, out) ==
    IF j > Len(fields) THEN Ret(Ok(map), self, out)
    ELSE IF fields[j] = a
    THEN Then(eval_expr(value, self, out), LAMBDA v :
           IF v.r.ok # "Ok" THEN v
           ELSE callstruct_fields(fields, j + 1, a, value,
                                  Insert(map, fields[j], v.r.v), v.vm, v.out))
    ELSE callstruct_fields(fields, j + 1, a, value, map, self, out)

\* Expr::CallStruct: `for (arg, value) in args`, from pair i
RECURSIVE callstruct_pairs(_, _, _, _, _, _)
callstruct_pairs(fields, args, i, map, self, out) ==
    IF i > Len(args) THEN Ret(Ok(map), self, out)
    ELSE IF args[i].arg.k # "Ident"
    THEN Ret(TypeMismatch("ident", "unknown"), self, out)
    ELSE Then(eval_expr(args[i].value, self, out), LAMBDA v :
           IF v.r.ok # "Ok" THEN v
           ELSE Then(callstruct_fields(fields, 1, args[i].arg.ident, args[i].value,
                                       map, v.vm, v.out), LAMBDA m :
                  IF m.r.ok # "Ok" THEN m
                  ELSE callstruct_pairs(fields, args, i + 1, m.r.v, m.vm, m.out)))

eval_CallStruct(name, args, self, out) ==
    IF ~exists(self, name) THEN Ret(Err("StructNotFound", name, ""), self, out)
    ELSE IF self[name].t # "DefStruct"
    THEN Ret(TypeMismatch("struct", get_type(self[name])), self, out)
    ELSE Then(callstruct_pairs(self[name].fields, args, 1, EmptyMap, self, out),
              LAMBDA m :
           IF m.r.ok # "Ok" THEN m
           ELSE Ret(Ok(CallStruct(name, m.r.v)), m.vm, m.out))

eval_GetAttr(name, attr, self, out) ==
    IF exists(self, name) /\ self[name].t = "CallStruct"
    THEN IF attr \in DOMAIN self[name].fields
         THEN Ret(Ok(self[name].fields[attr]), self, out)
         ELSE Ret(Err("AttrNotFound", attr, ""), self, out)
    ELSE Ret(TypeMismatch("struct", "unknown"), self, out)

\* faulty variant of eval_Impl: the method table is started anew
eval_Impl_fresh(name_struct, name_method, args, body, self, out) ==
    IF ~exists(self, name_struct)
    THEN Ret(Err("StructNotFound", name_struct, ""), self, out)
    ELSE IF self[name_struct].t # "DefStruct"
    THEN Ret(TypeMismatch("struct", "unknown"), self, out)
    ELSE IF ~AllIdent(args) THEN Ret(TypeMismatch("ident", "unknown"), self, out)
    ELSE Ret(Ok(None),
             set_ident(self, name_struct,
                       DefStruct(name_struct, self[name_struct].fields,
                                 Insert(EmptyMap, name_method,
                                        Function(name_method, Idents(args), body)))),
             out)

eval_Impl(name_struct, name_method, args, body, self, out) ==
    IF ~exists(self, name_struct)
    THEN Ret(Err("StructNotFound", name_struct, ""), self, out)
    ELSE IF self[name_struct].t # "DefStruct"
    THEN Ret(TypeMismatch("struct", "unknown"), self, out)
    ELSE IF ~AllIdent(args) THEN Ret(TypeMismatch("ident", "unknown"), self, out)
    ELSE LET fiw == self[name_struct].fields
             fuw == Insert(self[name_struct].function, name_method,
                           Function(name_method, Idents(args), body))
         IN  Ret(Ok(None), set_ident(self, name_struct, DefStruct(name_struct, fiw, fuw)),
                 out)

\* Expr::GetFunc: `args_vec.push(self.clone().eval_expr(arg)?)`, from argument
\* i; each argument runs on a clone of self, which is dropped
RECURSIVE getfunc_args(_, _, _, _, _)
getfunc_args(args, i, args_vec, self, out) ==
    IF i > Len(args) THEN Ret(Ok(args_vec), self, out)
    ELSE Then(eval_expr(args[i], self, out), LAMBDA a :
           IF a.r.ok # "Ok" THEN Ret(a.r, self, a.out)
           ELSE getfunc_args(args, i + 1, Append(args_vec, a.r.v), self, a.out))

\* faulty variant of getfunc_vm: no argument is bound
getfunc_vm_unbound(args_vec, field_struct, i, new_vm) == new_vm

\* Expr::GetFunc: new_vm, self and then the zip of the arguments with the
\* declared fields of the struct, from position i
RECURSIVE getfunc_vm(_, _, _, _)
getfunc_vm(args_vec, field_struct, i, new_vm) ==
    IF i > Len(args_vec) \/ i > Len(field_struct) THEN new_vm
    ELSE getfunc_vm(args_vec, field_struct, i + 1,
                    set_ident(new_vm, field_struct[i], args_vec[i]))

\* Expr::GetFunc once the instance, its struct n and the method s are found
getfunc_call(call_struct, field_struct, s, args, self, out) ==
    Then(getfunc_args(args, 1, <<>>, self, out), LAMBDA a :
      IF a.r.ok # "Ok" THEN a
      ELSE IF s.t # "Function"
      THEN Ret(TypeMismatch("function", "unknown"), self, a.out)
      ELSE Then(eval_expr(s.body,
                          getfunc_vm(a.r.v, field_struct, 1,
                                     set_ident(Vm_new, "self", call_struct)),
                          a.out),
                LAMBDA body : Ret(body.r, self, body.out)))

\* faulty variant of eval_GetFunc: a struct name that is not bound to a
\* definition is reported as StructNotFound
eval_GetFunc_named(name, func, args, self, out) ==
    IF ~(exists(self, name) /\ self[name].t = "CallStruct")
    THEN Ret(TypeMismatch("struct", "unknown"), self, out)
    ELSE IF ~(exists(self, self[name].name) /\ self[self[name].name].t = "DefStruct")
    THEN Ret(Err("StructNotFound", self[name].name, ""), self, out)
    ELSE IF func \notin DOMAIN self[self[name].name].function
    THEN Ret(Err("FunctionNotFound", func, ""), self, out)
    ELSE getfunc_call(self[name], self[self[name].name].fields,
                      self[self[name].name].function[func], args, self, out)

eval_GetFunc(name, func, args, self, out) ==
    IF ~(exists(self, name) /\ self[name].t = "CallStruct")
    THEN Ret(TypeMismatch("struct", "unknown"), self, out)
    ELSE IF ~(exists(self, self[name].name) /\ self[self[name].name].t = "DefStruct")
    THEN Ret(TypeMismatch("struct", "unknown"), self, out)
    ELSE IF func \notin DOMAIN self[self[name].name].function
    THEN Ret(Err("FunctionNotFound", func, ""), self, out)
    ELSE getfunc_call(self[name], self[self[name].name].fields,
                      self[self[name].name].function[func], args, self, out)

\* faulty variant of eval_SetVar: the value is evaluated before the name is looked up
eval_SetVar_eager(name, value, self, out) ==
    Then(eval_expr(value, self, out), LAMBDA v :
      IF v.r.ok # "Ok" THEN v
      ELSE IF ~exists(v.vm, name) THEN Ret(Err("VarNotFound", name, ""), v.vm, v.out)
      ELSE Ret(Ok(None), set_ident(v.vm, name, v.r.v), v.out))

eval_SetVar(name, value, self, out) ==
    IF ~exists(self, name) THEN Ret(Err("VarNotFound", name, ""), self, out)
    ELSE Then(eval_expr(value, self, out), LAMBDA v :
           IF v.r.ok # "Ok" THEN v
           ELSE Ret(Ok(None), set_ident(v.vm, name, v.r.v), v.out))

\* the arithmetic of iadd, isub, imul and idiv
i_op(op, v, b) ==
    CASE op = "IAdd" -> FAdd(v, b)
      [] op = "ISub" -> FSub(v, b)
      [] op = "IMul" -> FMul(v, b)
      [] op = "IDiv" -> FDiv(v, b)

\* Vm::iadd, isub, imul, idiv: the same body around the operation
iop(op, self, a, b) ==
    IF b.t # "Number" THEN [r |-> TypeMismatch("int or float", "unknown"), vm |-> self]
    ELSE IF ~exists(self, a) THEN [r |-> Err("VarNotFound", a, ""), vm |-> self]
    ELSE IF self[a].t # "Number"
    THEN [r |-> TypeMismatch("number", get_type(self[a])), vm |-> self]
    ELSE [r |-> Ok(None), vm |-> set_ident(self, a, i_op(op, self[a], b))]

eval_IOp(op, name, value, self, out) ==
    Then(eval_expr(value, self, out), LAMBDA v :
      IF v.r.ok # "Ok" THEN v
      ELSE Then(iop(op, v.vm, name, v.r.v), LAMBDA u : Ret(u.r, u.vm, v.out)))

\* faulty variant of match_loop: the first case's body is the result
match_loop_first(value, cases, i, return_value, self, out) ==
    IF i > Len(cases) THEN Ret(Ok(return_value), self, out)
    ELSE Then(eval_expr(value, self, out), LAMBDA s :
           IF s.r.ok # "Ok" THEN s
           ELSE Then(eval_expr(cases[i].body, Vm_new, s.out), LAMBDA b :
                  Ret(b.r, s.vm, b.out)))

\* Expr::Match: `for i in cases`, from case i.  The pattern's Result is
\* dropped, the scrutinee's value matches the binding pattern _case
RECURSIVE match_loop(_, _, _, _, _, _)
match_loop(value, cases, i, return_value, self, out) ==
    IF i > Len(cases) THEN Ret(Ok(return_value), self, out)
    ELSE Then(eval_expr(cases[i].pat, self, out), LAMBDA c :
           IF c.r.ok = "Panic" THEN c
           ELSE Then(eval_expr(value, c.vm, c.out), LAMBDA s :
                  IF s.r.ok # "Ok" THEN s
                  ELSE Then(eval_expr(cases[i].body, Vm_new, s.out), LAMBDA b :
                         IF b.r.ok # "Ok" THEN Ret(b.r, s.vm, b.out)
                         ELSE match_loop(value, cases, i + 1, b.r.v, s.vm, b.out))))

eval_Match(value, cases, self, out) == match_loop(value, cases, 1, None, self, out)

\* Vm::eval_expr
eval_expr(e, self, out) ==
    CASE e.k = "Empty" -> Ret(Ok(None), self, out)
      [] e.k = "Block" -> eval_Block(e.body, self, out)
      [] e.k = "Literal" -> eval_Literal(e.value, self, out)
      [] e.k = "Ident" -> eval_Ident(e.ident, self, out)
      [] e.k = "BinOp" -> eval_BinOp(e.op, e.left, e.right, self, out)
      [] e.k = "IfThen" -> eval_IfThen(e.cond, e.then, self, out)
      [] e.k = "IfThenElse" -> eval_IfThenElse(e.cond, e.then, e.else_, self, out)
      [] e.k = "Assign" -> eval_Assign(e.name, e.value, self, out)
      [] e.k = "While" -> eval_While(e.cond, e.body, self, out)
      [] e.k = "For" -> eval_For(e.name, e.iter, e.body, self, out)
      [] e.k = "FunDef" -> eval_FunDef(e.name, e.args, e.body, self, out)
      [] e.k = "Call" -> eval_Call(e.name, e.args, self, out)
      [] e.k = "List" -> eval_List(e.elems, self, out)
      [] e.k = "Index" -> eval_Index(e.name, e.index, self, out)
      [] e.k = "Range" -> eval_Range(e.start, e.end, self, out)
      [] e.k = "StructDef" -> eval_StructDef(e.name, e.fields, self, out)
      [] e.k = "CallStruct" -> eval_CallStruct(e.name, e.args, self, out)
      [] e.k = "GetAttr" -> eval_GetAttr(e.name, e.attr, self, out)
      [] e.k = "Impl" -> eval_Impl(e.name_struct, e.name_method, e.args, e.body, self, out)
      [] e.k = "GetFunc" -> eval_GetFunc(e.name, e.func, e.args, self, out)
      [] e.k = "SetVar" -> eval_SetVar(e.name, e.value, self, out)
      [] e.k = "IOp" -> eval_IOp(e.op, e.name, e.value, self, out)
      [] e.k = "Match" -> eval_Match(e.value, e.cases, self, out)

(***************************************************************************)
(* The programs.  A host holds one Vm and hands it one parsed expression   *)
(* after the other; an Err leaves the Vm usable, a panic ends the process. *)
(* The expressions below are the inputs of the model, by kind of node.     *)
(***************************************************************************)
Lit(n) == ExprLiteral(Num(n))
Str(s) == ExprLiteral(String(s))
Id(n) == ExprIdent(n)
Pair(arg, value) == [arg |-> arg, value |-> value]
Case(pat, body) == [pat |-> pat, body |-> body]

\* [10, 20, ...], MaxList long
ListLiteral == ExprList([i \in 1..MaxList |-> Lit(10 * i)])

BlockExprs ==
    { ExprBlock(<<>>),
      ExprBlock(<<ExprAssign("y", Lit(1)), Id("zz"), ExprAssign("x", Lit(2))>>),
      ExprBlock(<<ExprStructDef("S", <<Id("x"), Id("y")>>),
                  ExprImpl("S", "m", <<Id("a")>>, Id("x"))>>) }

LiteralExprs == { Lit(1), Str("s"), ExprLiteral(Bool(TRUE)) }

IdentExprs == { Id("x"), Id("zz") }

ArithOps == {"Add", "Sub", "Mul", "Div", "Mod"}

BinOpExprs ==
    { ExprBinOp("Add", Id("x"), Lit(1)),
      ExprBinOp("Lt", Lit(1), Id("x")),
      ExprBinOp("And", ExprLiteral(Bool(TRUE)), ExprLiteral(Bool(FALSE))) }
    \cup { ExprBinOp(op, l, Lit(2)) : op \in ArithOps, l \in {Lit(7), Str("x"), Id("S")} }
    \cup { ExprBinOp(op, Lit(1), Id("p")) : op \in ArithOps }

IfThenExprs ==
    { ExprIfThen(ExprBinOp("Lt", Lit(0), Id("x")), ExprSetVar("x", Lit(0))),
      ExprIfThen(Lit(1), Lit(2)) }

IfThenElseExprs ==
    { ExprIfThenElse(ExprLiteral(Bool(FALSE)), Lit(1), Str("else")),
      ExprIfThenElse(ExprLiteral(Bool(TRUE)), Lit(1), Str("else")) }

AssignExprs ==
    { ExprAssign("x", Lit(1)),
      ExprAssign("x", Lit(2)),
      ExprAssign("x", Id("zz")),
      ExprAssign("x", ExprAssign("x", Lit(1))),
      ExprAssign("x", ExprBlock(<<ExprSetVar("x", Lit(7)), Id("x")>>)),
      ExprAssign("f", Lit(1)),
      ExprAssign("i", Str("s")),
      ExprAssign("S", Lit(1)),
      ExprAssign("l", ListLiteral),
      ExprAssign("l", ExprList(<<>>)),
      ExprAssign("p", ExprCallStruct("S", <<Pair(Id("x"), Lit(1)), Pair(Id("z"), Lit(9))>>)),
      ExprAssign("print", Lit(5)) }

WhileExprs ==
    { ExprWhile(ExprBinOp("Lt", Id("x"), Lit(3)), ExprIOp("IAdd", "x", Lit(1))),
      ExprWhile(Lit(1), ExprAssign("y", Lit(1))) }

ForBodies ==
    { ExprBlock(<<ExprCall("println", <<Id("i")>>), ExprBinOp("Mul", Id("i"), Lit(2))>>),
      ExprBlock(<<ExprCall("print", <<Id("i")>>), ExprSetVar("i", Str("s"))>>) }

ForExprs ==
    { ExprFor(Id("i"), ExprRange(Lit(s), Lit(e)), b) :
        s \in -1..1, e \in 0..MaxRange, b \in ForBodies }
    \cup { ExprFor(Id("i"), Id("l"), ExprCall("print", <<Id("i")>>)),
           ExprFor(Lit(1), Id("l"), ExprEmpty),
           ExprFor(Id("print"), ExprRange(Lit(0), Lit(1)), ExprEmpty),
           ExprFor(Id("i"), Lit(3), ExprEmpty) }

FunDefExprs ==
    { ExprFunDef("f", <<Id("a")>>, Id("x")),
      ExprFunDef("f", <<Id("a")>>, ExprBinOp("Add", Id("a"), Id("x"))),
      ExprFunDef("f", <<Id("x")>>, ExprBlock(<<Id("x"), Id("f")>>)),
      ExprFunDef("f", <<>>, ExprBlock(<<ExprAssign("x", Lit(9)), Id("x")>>)),
      ExprFunDef("f", <<Lit(1)>>, ExprEmpty),
      ExprFunDef("print", <<>>, Lit(1)),
      ExprFunDef("println", <<Lit(1)>>, Lit(1)) }

CallExprs ==
    { ExprCall("f", <<Lit(3)>>),
      ExprCall("f", <<>>),
      ExprCall("f", <<ExprSetVar("x", Lit(4))>>),
      ExprCall("g", <<>>),
      ExprCall("print", <<Lit(1), Str("a")>>),
      ExprCall("print", <<Id("x")>>),
      ExprCall("print", <<Id("S")>>),
      ExprCall("println", <<>>),
      ExprCall("println", <<Id("print")>>) }

ListExprs == { ListLiteral, ExprList(<<Id("x"), Lit(1)>>) }

IndexExprs ==
    { ExprIndex(Id("l"), Lit(i)) : i \in -1..MaxList }
    \cup { ExprIndex(Id("l"), ExprRange(Lit(s), Lit(e))) :
             s \in -1..MaxList, e \in -1..(MaxList + 1) }
    \cup { ExprIndex(Id("l"), ExprBinOp("Div", Lit(n), Lit(d))) :
             n \in {-1, 0, 3}, d \in {0, 2} }
    \cup { ExprIndex(Id("l"), Str("s")), ExprIndex(Lit(0), Lit(0)),
           ExprIndex(Id("x"), Lit(0)) }

RangeExprs == { ExprRange(Lit(0), Lit(2)), ExprRange(Lit(0), Str("s")) }

StructDefExprs ==
    { ExprStructDef("S", <<Id("x"), Id("y")>>),
      ExprStructDef("S", <<Lit(1)>>),
      ExprStructDef("print", <<>>) }

CallStructExprs ==
    { ExprCallStruct("S", <<Pair(Id("x"), Lit(1)), Pair(Id("z"), Lit(9))>>),
      ExprCallStruct("S", <<Pair(Id("y"), Str("s")), Pair(Id("x"), Id("x"))>>),
      ExprCallStruct("S", <<Pair(Id("x"), Lit(1)), Pair(Id("x"), Lit(2))>>),
      ExprCallStruct("S", <<Pair(Id("z"), Id("zz"))>>),
      ExprCallStruct("S", <<Pair(Lit(1), Lit(1))>>),
      ExprCallStruct("S", <<>>),
      ExprCallStruct("x", <<>>) }

GetAttrExprs == { ExprGetAttr("p", "x"), ExprGetAttr("p", "y") }

ImplExprs ==
    { ExprImpl("S", "m", <<Id("a")>>, Id("x")),
      ExprImpl("S", "m", <<Lit(1)>>, Id("x")) }

GetFuncExprs ==
    { ExprGetFunc("p", "m", <<Lit(5)>>),
      ExprGetFunc("p", "n", <<>>) }

SetVarExprs ==
    { ExprSetVar("x", Lit(2)),
      ExprSetVar("x", Str("s")),
      ExprSetVar("x", Id("zz")),
      ExprSetVar("y", ExprBlock(<<ExprCall("print", <<Lit(1)>>), ExprAssign("x", Lit(1))>>)),
      ExprSetVar("f", ExprCall("print", <<Str("v")>>)),
      ExprSetVar("print", Lit(6)) }

IOpExprs ==
    { ExprIOp("IAdd", "x", Lit(1)),
      ExprIOp("ISub", "x", Lit(1)),
      ExprIOp("IMul", "x", Lit(2)),
      ExprIOp("IDiv", "x", Lit(0)),
      ExprIOp("IAdd", "x", Str("s")) }

MatchCases ==
    { <<Case(Lit(1), Lit(10)), Case(Lit(2), Lit(20))>>,
      <<Case(Lit(2), Lit(20)), Case(Lit(1), Lit(10))>>,
      <<Case(Id("zz"), ExprCall("print", <<Str("a")>>)),
        Case(ExprAssign("y", Lit(1)), ExprCall("print", <<Str("b")>>)),
        Case(Lit(1), Str("c"))>>,
      <<Case(Lit(1), Id("x")), Case(Lit(2), Lit(20))>>,
      <<Case(Lit(1), Lit(10))>> }

MatchExprs ==
    { ExprMatch(v, c) : v \in {Lit(1), Lit(2), Id("x"), Id("y")}, c \in MatchCases }

(***************************************************************************)
(* The state machine: vm is the Vm's user mapping; expr, before, res and   *)
(* stdout record the last evaluation (its expression, the mapping it       *)
(* started from, its result and the text it wrote).                        *)
(***************************************************************************)
Init ==
    /\ vm = Vm_new
    /\ expr = ExprEmpty
    /\ before = Vm_new
    /\ res = Ok(None)
    /\ stdout = ""
    /\ steps = 0

\* the host goes on: it has evaluations left and the process has not panicked
Running == steps < MaxSteps /\ res.ok # "Panic"

\* one call vm.eval_expr(e) by the host
Eval(e) ==
    /\ \E s \in {eval_expr(e, vm, "")} :
           /\ vm' = s.vm
           /\ res' = s.r
           /\ stdout' = s.out
    /\ expr' = e
    /\ before' = vm
    /\ steps' = steps + 1

EvalEmpty == Running /\ Eval(ExprEmpty)
EvalBlock == Running /\ \E e \in BlockExprs : Eval(e)
EvalLiteral == Running /\ \E e \in LiteralExprs : Eval(e)
EvalIdent == Running /\ \E e \in IdentExprs : Eval(e)
EvalBinOp == Running /\ \E e \in BinOpExprs : Eval(e)
EvalIfThen == Running /\ \E e \in IfThenExprs : Eval(e)
EvalIfThenElse == Running /\ \E e \in IfThenElseExprs : Eval(e)
EvalAssign == Running /\ \E e \in AssignExprs : Eval(e)
EvalWhile == Running /\ \E e \in WhileExprs : Eval(e)
EvalFor == Running /\ \E e \in ForExprs : Eval(e)
EvalFunDef == Running /\ \E e \in FunDefExprs : Eval(e)
EvalCall == Running /\ \E e \in CallExprs : Eval(e)
EvalList == Running /\ \E e \in ListExprs : Eval(e)
EvalIndex == Running /\ \E e \in IndexExprs : Eval(e)
EvalRange == Running /\ \E e \in RangeExprs : Eval(e)
EvalStructDef == Running /\ \E e \in StructDefExprs : Eval(e)
EvalCallStruct == Running /\ \E e \in CallStructExprs : Eval(e)
EvalGetAttr == Running /\ \E e \in GetAttrExprs : Eval(e)
EvalImpl == Running /\ \E e \in ImplExprs : Eval(e)
EvalGetFunc == Running /\ \E e \in GetFuncExprs : Eval(e)
EvalSetVar == Running /\ \E e \in SetVarExprs : Eval(e)
EvalIOp == Running /\ \E e \in IOpExprs : Eval(e)
EvalMatch == Running /\ \E e \in MatchExprs : Eval(e)

Next ==
    \/ EvalEmpty
    \/ EvalBlock
    \/ EvalLiteral
    \/ EvalIdent
    \/ EvalBinOp
    \/ EvalIfThen
    \/ EvalIfThenElse
    \/ EvalAssign
    \/ EvalWhile
    \/ EvalFor
    \/ EvalFunDef
    \/ EvalCall
    \/ EvalList
    \/ EvalIndex
    \/ EvalRange
    \/ EvalStructDef
    \/ EvalCallStruct
    \/ EvalGetAttr
    \/ EvalImpl
    \/ EvalGetFunc
    \/ EvalSetVar
    \/ EvalIOp
    \/ EvalMatch

Spec == Init /\ [][Next]_vars

(***************************************************************************)
(* A second host: programs of calls, loops, structs and methods, whose     *)
(* arguments and bodies change the environment and write text.             *)
(***************************************************************************)
\* struct S{x, y} with its methods, declared in one Block
StructBlock ==
    ExprBlock(<<ExprStructDef("S", <<Id("x"), Id("y")>>),
                ExprImpl("S", "m", <<Id("a")>>, Id("x")),
                ExprImpl("S", "n", <<Id("a")>>, Id("a")),
                ExprImpl("S", "s", <<>>, Id("self")),
                ExprImpl("S", "o", <<>>, Id("p")),
                ExprImpl("S", "y", <<Id("a"), Id("b")>>, Id("y"))>>)

\* struct S{x, y} with its instance p and struct x{x, y} with its instance q:
\* methods that dispatch on self and read an attribute of self
DispatchBlock ==
    ExprBlock(<<ExprStructDef("S", <<Id("x"), Id("y")>>),
                ExprImpl("S", "m", <<>>, Lit(7)),
                ExprImpl("S", "r", <<>>, ExprGetFunc("self", "m", <<>>)),
                ExprImpl("S", "ax", <<>>, ExprGetAttr("self", "x")),
                ExprAssign("p", ExprCallStruct("S", <<Pair(Id("x"), Lit(1)),
                                                      Pair(Id("y"), Lit(2))>>)),
                ExprStructDef("x", <<Id("x"), Id("y")>>),
                ExprImpl("x", "m", <<>>, Lit(7)),
                ExprImpl("x", "r", <<>>, ExprGetFunc("self", "m", <<>>)),
                ExprAssign("q", ExprCallStruct("x", <<Pair(Id("x"), Lit(1)),
                                                      Pair(Id("y"), Lit(2))>>))>>)

AssignProg ==
    { ExprAssign("x", Lit(1)),
      ExprAssign("p", ExprCallStruct("S", <<Pair(Id("x"), Lit(1)), Pair(Id("y"), Lit(2))>>)),
      ExprAssign("T", Id("S")) }

BlockProg ==
    { StructBlock,
      DispatchBlock,
      ExprBlock(<<ExprAssign("y", Lit(1)), Id("zz"), ExprAssign("x", Lit(2))>>),
      ExprBlock(<<ExprAssign("y", Lit(1)), ExprAssign("w", Lit(2))>>),
      ExprBlock(<<ExprBlock(<<ExprAssign("w", Lit(1)), ExprCall("print", <<Str("k")>>), Id("zz")>>),
                  ExprAssign("y", Lit(2))>>),
      ExprBlock(<<Id("zz")>>) }

\* a body using every binding form of the evaluator
BusyBody ==
    ExprBlock(<<ExprSetVar("a", Lit(8)),
                ExprIOp("IAdd", "a", Lit(1)),
                ExprFor(Id("i"), ExprRange(Lit(0), Lit(2)), ExprEmpty),
                ExprFunDef("g", <<>>, ExprEmpty),
                ExprStructDef("T", <<Id("x")>>),
                ExprImpl("T", "m", <<>>, ExprEmpty),
                ExprAssign("x", Lit(9)),
                Id("a")>>)

FunDefProg ==
    { ExprFunDef("f", <<Id("a")>>, Id("f")),
      ExprFunDef("f", <<Id("f")>>, Id("f")),
      ExprFunDef("f", <<>>, ExprCall("g", <<>>)),
      ExprFunDef("f", <<Id("a")>>,
                 ExprIfThenElse(ExprBinOp("Lt", Id("a"), Lit(1)), Lit(0),
                                ExprCall("f", <<ExprBinOp("Sub", Id("a"), Lit(1))>>))),
      ExprFunDef("f", <<Id("a"), Id("b")>>, Id("a")),
      ExprFunDef("f", <<Id("a")>>, BusyBody),
      ExprFunDef("f", <<Id("a")>>, ExprBlock(<<BusyBody, Id("zz")>>)),
      ExprFunDef("f", <<Id("a")>>, ExprGetFunc("a", "m", <<>>)),
      ExprFunDef("f", <<Id("a")>>, ExprGetAttr("a", "x")),
      ExprFunDef("f", <<Id("a"), Id("S")>>, ExprGetFunc("a", "m", <<>>)),
      ExprFunDef("f", <<Id("a")>>,
                 ExprBlock(<<ExprStructDef("S", <<Id("x"), Id("y")>>),
                             ExprImpl("S", "m", <<>>, Lit(8)),
                             ExprGetFunc("a", "m", <<>>)>>)) }

CallProg ==
    { ExprCall("print", <<Id("zz"), ExprAssign("y", Lit(1)), Id("y")>>),
      ExprCall("println", <<ExprBinOp("Add", Str("s"), Lit(1)), Id("x")>>),
      ExprCall("print", <<Id("x"), Id("S")>>),
      ExprCall("f", <<Lit(MaxRange)>>),
      ExprCall("f", <<>>),
      ExprCall("f", <<ExprAssign("w", Lit(1))>>),
      ExprCall("f", <<ExprAssign("w", Lit(1)), Id("w"), ExprAssign("v", Lit(1))>>),
      ExprCall("f", <<Id("zz"), ExprAssign("w", Lit(1))>>),
      ExprCall("g", <<>>),
      ExprCall("f", <<Id("p")>>),
      ExprCall("f", <<Id("p"), Id("S")>>) }

WhileProg ==
    { ExprWhile(ExprBinOp("Lt", Id("x"), Lit(MaxRange)),
                ExprBlock(<<ExprIOp("IAdd", "x", Lit(1)),
                            ExprCall("print", <<Id("x")>>),
                            ExprFor(Id("i"), ExprRange(Lit(0), Lit(1)), ExprEmpty)>>)),
      ExprWhile(ExprBinOp("Lt", Id("x"), Lit(2)), ExprIOp("IAdd", "x", Str("s"))),
      ExprWhile(Lit(1), ExprAssign("y", Lit(1))),
      ExprWhile(ExprAssign("y", Lit(1)), ExprAssign("w", Lit(1))),
      ExprWhile(ExprLiteral(Bool(FALSE)), ExprAssign("y", Lit(1))) }

CallStructProg ==
    { ExprCallStruct("S", <<Pair(Id("x"), Lit(1)), Pair(Id("z"), Lit(9))>>),
      ExprCallStruct("S", <<Pair(Id("x"), ExprCall("print", <<Str("a")>>)),
                            Pair(Id("z"), ExprCall("print", <<Str("b")>>))>>),
      ExprCallStruct("S", <<Pair(Id("y"), ExprAssign("w", Lit(1)))>>),
      ExprCallStruct("S", <<Pair(Id("z"), ExprAssign("w", Lit(1)))>>) }

ImplProg ==
    { ExprImpl("S", "m", <<Id("a")>>, Id("a")),
      ExprImpl("S", "k", <<>>, Lit(1)),
      ExprImpl("T", "k", <<>>, Lit(1)),
      ExprImpl("S", "k", <<Lit(1)>>, Lit(1)),
      ExprImpl("x", "k", <<>>, Lit(1)) }

GetFuncProg ==
    { ExprGetFunc("p", m, <<>>) : m \in {"m", "s", "o", "zz"} }
    \cup { ExprGetFunc("p", m, <<Lit(5)>>) : m \in {"m", "n", "y"} }
    \cup { ExprGetFunc("p", "y", <<Lit(5), Lit(6), Lit(7)>>),
           ExprGetFunc("p", "m", <<ExprAssign("w", Lit(1))>>),
           ExprGetFunc("p", "y", <<ExprAssign("w", Lit(1)), Id("w")>>),
           ExprGetFunc("x", "m", <<>>),
           ExprGetFunc("p", "r", <<>>),
           ExprGetFunc("p", "ax", <<>>),
           ExprGetFunc("q", "r", <<>>),
           ExprGetFunc("q", "r", <<Id("x")>>) }

MatchProg ==
    { ExprMatch(Lit(1), <<Case(Lit(1), ExprGetFunc("p", "m", <<>>)),
                          Case(Lit(2), ExprGetAttr("p", "x"))>>),
      ExprMatch(Lit(1), <<Case(Lit(1), ExprGetAttr("p", "x"))>>),
      ExprMatch(Lit(1), <<Case(Lit(1), ExprBlock(<<DispatchBlock,
                                                   ExprGetFunc("p", "m", <<>>)>>))>>),
      ExprMatch(Lit(1), <<Case(Lit(1), ExprBlock(<<DispatchBlock,
                                                   ExprGetAttr("p", "x")>>))>>),
      ExprMatch(Id("zz"), <<Case(Lit(1), ExprGetFunc("p", "m", <<>>))>>) }

RunAssign == Running /\ \E e \in AssignProg : Eval(e)
RunBlock == Running /\ \E e \in BlockProg : Eval(e)
RunFunDef == Running /\ \E e \in FunDefProg : Eval(e)
RunCall == Running /\ \E e \in CallProg : Eval(e)
RunWhile == Running /\ \E e \in WhileProg : Eval(e)
RunCallStruct == Running /\ \E e \in CallStructProg : Eval(e)
RunImpl == Running /\ \E e \in ImplProg : Eval(e)
RunGetFunc == Running /\ \E e \in GetFuncProg : Eval(e)
RunMatch == Running /\ \E e \in MatchProg : Eval(e)

ProgNext ==
    \/ RunAssign
    \/ RunBlock
    \/ RunFunDef
    \/ RunCall
    \/ RunWhile
    \/ RunCallStruct
    \/ RunImpl
    \/ RunGetFunc
    \/ RunMatch

ProgSpec == Init /\ [][ProgNext]_vars

(***************************************************************************)
(* The claims.  Each is a predicate of the state left by the last          *)
(* evaluation: expr evaluated from the mapping before, leaving vm, res and *)
(* stdout.                                                                 *)
(***************************************************************************)
\* the elements of a sequence
Elems(seq) == { seq[i] : i \in 1..Len(seq) }

\* the last evaluation was a Call of a user function, with an argument for
\* every parameter
UserCall ==
    /\ expr.k = "Call"
    /\ expr.name \notin Builtins
    /\ expr.name \in DOMAIN before
    /\ before[expr.name].t = "Function"
    /\ Len(expr.args) >= Len(before[expr.name].args)

\* the names of the caller that are neither a parameter of f nor f's name
OuterNames(f) == (DOMAIN before \ Elems(f.args)) \ {f.name}

\* C1: in the body of a user function invoked through Call, Ident(n) fails
\* with VarNotFound for every n bound in the caller's environment that is
\* neither a parameter nor the function's own name: in the environment the
\* body starts in, and as the Call's result when the body is that Ident
\* (alone, or as the right operand after a parameter)
C1_OuterScopeInvisible ==
    UserCall =>
      LET f == before[expr.name]
          b == call_bind(f.args, expr.args, 1, call_vm(f, before), before, "")
      IN  /\ b.r.ok = "Ok" =>
               \A n \in OuterNames(f) :
                  eval_expr(ExprIdent(n), b.r.v, "").r = Err("VarNotFound", n, "")
          /\ (b.r.ok = "Ok" /\ f.body.k = "Ident" /\ f.body.ident \in OuterNames(f)) =>
               res = Err("VarNotFound", f.body.ident, "")
          /\ (/\ b.r.ok = "Ok"
              /\ f.body.k = "BinOp"
              /\ f.body.left.k = "Ident"
              /\ f.body.left.ident \in Elems(f.args)
              /\ f.body.right.k = "Ident"
              /\ f.body.right.ident \in OuterNames(f)) =>
               res = Err("VarNotFound", f.body.right.ident, "")

\* C1: a function whose body is Ident(x) was called where x was bound
C1_Witness ==
    /\ UserCall
    /\ before[expr.name].body.k = "Ident"
    /\ before[expr.name].body.ident = "x"
    /\ "x" \in DOMAIN before
    /\ "x" \notin Elems(before[expr.name].args)
    /\ res = Err("VarNotFound", "x", "")

\* C2: Assign(name, v) fails with VarAlreadyDefined when name is bound once v
\* is evaluated (so whenever it was bound before), and then leaves every
\* binding as the evaluation of v left it; otherwise it binds name to the
\* value of v and changes nothing else; its result on success is None
C2_AssignFirstDefinitionOnly ==
    expr.k = "Assign" =>
      LET v == eval_expr(expr.value, before, "")
      IN  /\ (v.r.ok = "Ok" /\ expr.name \in DOMAIN v.vm) =>
               /\ res = Err("VarAlreadyDefined", expr.name, "")
               /\ vm = v.vm
          /\ (v.r.ok = "Ok" /\ expr.name \notin DOMAIN v.vm) =>
               /\ res = Ok(None)
               /\ DOMAIN vm = DOMAIN v.vm \cup {expr.name}
               /\ vm[expr.name] = v.r.v
               /\ \A n \in DOMAIN v.vm : vm[n] = v.vm[n]
          /\ expr.name \in DOMAIN before => res.ok # "Ok"
          /\ res.ok = "Ok" => res.v = None

\* C2: x was bound to 1 and Assign(x, 2) failed, x still 1
C2_Witness ==
    /\ expr.k = "Assign"
    /\ expr.name = "x"
    /\ expr.value.k = "Literal"
    /\ expr.value.value = Num(2)
    /\ "x" \in DOMAIN before
    /\ before["x"] = Num(1)
    /\ res = Err("VarAlreadyDefined", "x", "")
    /\ vm["x"] = Num(1)

\* C3: SetVar(name, v) on an unbound name fails with VarNotFound, v not
\* evaluated (nothing bound, nothing written); on a bound name it overwrites
\* the binding with the value of v, whatever was bound, and returns None
C3_SetVarRequiresBinding ==
    expr.k = "SetVar" =>
      /\ expr.name \notin DOMAIN before =>
           /\ res = Err("VarNotFound", expr.name, "")
           /\ vm = before
           /\ stdout = ""
      /\ expr.name \in DOMAIN before =>
           LET v == eval_expr(expr.value, before, "")
           IN  v.r.ok = "Ok" =>
                 /\ res = Ok(None)
                 /\ DOMAIN vm = DOMAIN v.vm
                 /\ vm[expr.name] = v.r.v
                 /\ \A n \in DOMAIN v.vm \ {expr.name} : vm[n] = v.vm[n]
                 /\ stdout = v.out

\* C3: SetVar on the unbound y, whose value would have printed and bound x
C3_Witness ==
    /\ expr.k = "SetVar"
    /\ expr.name = "y"
    /\ expr.value.k = "Block"
    /\ "y" \notin DOMAIN before
    /\ "x" \notin DOMAIN before
    /\ res = Err("VarNotFound", "y", "")

\* the names an expression can bind in the environment it is evaluated in
RECURSIVE Targets(_)
TargetsOfAll(seq) == UNION { Targets(seq[i]) : i \in 1..Len(seq) }
Targets(e) ==
    CASE e.k \in {"Assign", "SetVar", "IOp"} -> {e.name} \cup Targets(e.value)
      [] e.k = "For" ->
           (IF e.name.k = "Ident" THEN {e.name.ident} ELSE {})
           \cup Targets(e.iter) \cup Targets(e.body)
      [] e.k \in {"FunDef", "StructDef"} -> {e.name}
      [] e.k = "Impl" -> {e.name_struct}
      [] e.k = "Block" -> TargetsOfAll(e.body)
      [] e.k = "BinOp" -> Targets(e.left) \cup Targets(e.right)
      [] e.k = "IfThen" -> Targets(e.cond) \cup Targets(e.then)
      [] e.k = "IfThenElse" -> Targets(e.cond) \cup Targets(e.then) \cup Targets(e.else_)
      [] e.k = "While" -> Targets(e.cond) \cup Targets(e.body)
      [] e.k \in {"Call", "GetFunc"} -> TargetsOfAll(e.args)
      [] e.k = "List" -> TargetsOfAll(e.elems)
      [] e.k = "Index" -> Targets(e.index)
      [] e.k = "Range" -> Targets(e.start) \cup Targets(e.end)
      [] e.k = "CallStruct" -> UNION { Targets(e.args[i].value) : i \in 1..Len(e.args) }
      [] e.k = "Match" ->
           Targets(e.value) \cup UNION { Targets(e.cases[i].pat) : i \in 1..Len(e.cases) }
      [] OTHER -> {}

\* the last evaluation was a For over Range(s, e) of two integer literals
ForRange ==
    /\ expr.k = "For"
    /\ expr.name.k = "Ident"
    /\ expr.iter.k = "Range"
    /\ expr.iter.start.k = "Literal"
    /\ expr.iter.end.k = "Literal"

\* the loop after its first n turns from integer s: each turn binds the
\* name to the next integer and evaluates the body once
RECURSIVE TurnsFrom(_, _, _, _)
TurnsFrom(name, body, s, n) ==
    IF n = 0 THEN Ret(Ok(None), before, "")
    ELSE LET p == TurnsFrom(name, body, s, n - 1)
         IN  IF p.r.ok # "Ok" THEN p
             ELSE eval_expr(body, (name :> Num(s + n - 1)) @@ p.vm, p.out)

\* C4: For(name, Range(s, e), body) binds name to s, s + 1, ..., e - 1 in that
\* order and evaluates body once after each binding; when s < e and body
\* does not rebind name, name is left bound to e - 1 and the result is the
\* value of the last turn's body; when s >= e the body is not evaluated,
\* the result is None and the loop binds nothing
C4_ForRangeBindsInOrder ==
    ForRange =>
      LET s == AsIsize(expr.iter.start.value)
          e == AsIsize(expr.iter.end.value)
          name == expr.name.ident
      IN  /\ s >= e => (res = Ok(None) /\ vm = before /\ stdout = "")
          /\ s < e =>
               LET last == TurnsFrom(name, expr.body, s, e - s)
               IN  /\ res = last.r
                   /\ vm = last.vm
                   /\ stdout = last.out
                   /\ (res.ok = "Ok" /\ name \notin Targets(expr.body)) =>
                        vm[name] = Num(e - 1)

\* C4: for i in 0..3 printed 0, 1, 2 in turn, returned the last body value
\* and left i bound to 2
C4_Witness ==
    /\ ForRange
    /\ expr.iter.start.value = Num(0)
    /\ expr.iter.end.value = Num(3)
    /\ "i" \notin Targets(expr.body)
    /\ stdout = "0\n1\n2\n"
    /\ res = Ok(Num(4))
    /\ vm["i"] = Num(2)

\* the last evaluation constructed an instance of a defined struct
Construct ==
    /\ expr.k = "CallStruct"
    /\ expr.name \in DOMAIN before
    /\ before[expr.name].t = "DefStruct"

\* the pair names of a CallStruct node
PairNames(args) == { args[i].arg.ident : i \in 1..Len(args) }

\* the last pair of the node with the given name
LastPair(args, n) ==
    args[CHOOSE i \in 1..Len(args) :
           /\ args[i].arg.ident = n
           /\ \A j \in (i + 1)..Len(args) : args[j].arg.ident # n]

\* every pair has an identifier and a literal or an identifier as its value
PlainPairs(args) ==
    \A i \in 1..Len(args) :
       args[i].arg.k = "Ident" /\ args[i].value.k \in {"Literal", "Ident"}

\* C5: CallStruct(structName, pairs) of a defined struct yields a CallStruct
\* whose field map holds exactly the pair names that are declared fields,
\* each with the value of its expression: other pairs are dropped without
\* error, declared fields no pair names are absent
C5_CallStructKeepsDeclaredPairs ==
    (Construct /\ PlainPairs(expr.args)) =>
      LET fields == Elems(before[expr.name].fields)
          values == [i \in 1..Len(expr.args) |-> eval_expr(expr.args[i].value, before, "").r]
      IN  /\ (\A i \in 1..Len(expr.args) : values[i].ok = "Ok") => res.ok = "Ok"
          /\ res.ok = "Ok" =>
               /\ res.v.t = "CallStruct"
               /\ res.v.name = expr.name
               /\ DOMAIN res.v.fields = PairNames(expr.args) \cap fields
               /\ \A n \in DOMAIN res.v.fields :
                     res.v.fields[n] =
                       eval_expr(LastPair(expr.args, n).value, before, "").r.v

\* C5: Point{x, y} constructed with x: 1, z: 9 holds x alone
C5_Witness ==
    /\ Construct
    /\ before[expr.name].fields = <<"x", "y">>
    /\ PlainPairs(expr.args)
    /\ PairNames(expr.args) = {"x", "z"}
    /\ res.ok = "Ok"
    /\ DOMAIN res.v.fields = {"x"}
    /\ res.v.fields["x"] = Num(1)

\* the last evaluation indexed a bound List and the index evaluated to a value
IndexList ==
    /\ expr.k = "Index"
    /\ expr.name.k = "Ident"
    /\ expr.name.ident \in DOMAIN before
    /\ before[expr.name.ident].t = "List"
    /\ eval_expr(expr.index, before, "").r.ok = "Ok"

\* that value
IndexValue == eval_expr(expr.index, before, "").r.v

\* C6: Index(name, idx) on a List of length n with idx a Number i fails with
\* IndexOutOfBounds when i is negative or i >= n, and so for every i on the
\* empty list; when 0 <= i < n it returns the element at position i (the
\* integer part of i)
C6_IndexNumberBoundsChecked ==
    (IndexList /\ IndexValue.t = "Number") =>
      LET list == before[expr.name.ident].items
          i == IndexValue
      IN  /\ (~IsNaN(i) /\ (FLt(i, Num(0)) \/ ~FLt(i, Num(Len(list))))) =>
               (res.ok = "Err" /\ res.error = "IndexOutOfBounds")
          /\ (~IsNaN(i) /\ ~FLt(i, Num(0)) /\ FLt(i, Num(Len(list)))) =>
               res = Ok(list[(i.num \div i.den) + 1])
          /\ Len(list) = 0 => (res.ok = "Err" /\ res.error = "IndexOutOfBounds")

\* C6: index -1 on [10, 20, 30] failed IndexOutOfBounds
C6_Witness ==
    /\ IndexList
    /\ Len(before[expr.name.ident].items) = 3
    /\ IndexValue = Num(-1)
    /\ res = Err("IndexOutOfBounds", "l", "-1")

\* C7: Index(name, idx) on a List with idx a Range [s, e) either returns the
\* List of the elements at positions s..e-1 in order or fails with
\* IndexOutOfBounds, for every s and e; nothing else ends the evaluation
C7_IndexRangeNeverAborts ==
    (IndexList /\ IndexValue.t = "Range") =>
      \/ res.ok = "Err" /\ res.error = "IndexOutOfBounds"
      \/ /\ res.ok = "Ok"
         /\ res.v.t = "List"
         /\ res.v.items = SubSeq(before[expr.name.ident].items,
                                 IndexValue.start + 1, IndexValue.end)

\* the last evaluation was a Match with two or more cases
MatchMany == expr.k = "Match" /\ Len(expr.cases) >= 2

\* the evaluation of case i's body, in an environment of its own
BodyOf(i) == eval_expr(expr.cases[i].body, Vm_new, "")

\* C8, as the specification states it: a Match with two or more cases
\* returns the value of the last case's body whatever the scrutinee is
C8_MatchAlwaysLastCase ==
    MatchMany => res = BodyOf(Len(expr.cases)).r

\* an expression whose evaluation writes nothing
Silent(e) ==
    \/ e.k \in {"Literal", "Ident"}
    \/ e.k = "Assign" /\ e.value.k = "Literal"

\* the text the bodies of cases 1..n write, in order
RECURSIVE BodiesOut(_)
BodiesOut(n) == IF n = 0 THEN "" ELSE BodiesOut(n - 1) \o BodyOf(n).out

\* C8: a Match with two or more cases whose evaluation succeeds returns the
\* value of the last case's body, every case body having been evaluated in
\* order, and no pattern is compared with the scrutinee; it succeeds when
\* the scrutinee is a constant and every body succeeds; when it fails, the
\* error is that of the scrutinee or of a case body
C8_MatchLastCaseUnlessError ==
    MatchMany =>
      LET n == Len(expr.cases)
      IN  /\ res.ok = "Ok" => res = BodyOf(n).r
          /\ ( /\ res.ok = "Ok"
               /\ Silent(expr.value)
               /\ \A i \in 1..n : Silent(expr.cases[i].pat) ) =>
               stdout = BodiesOut(n)
          /\ ( /\ expr.value.k = "Literal"
               /\ \A i \in 1..n : Silent(expr.cases[i].pat)
               /\ \A i \in 1..n : BodyOf(i).r.ok = "Ok" ) =>
               res.ok = "Ok"
          /\ res.ok = "Err" =>
               \/ \E i \in 1..n : BodyOf(i).r = res
               \/ /\ expr.value.k = "Ident"
                  /\ res = Err("VarNotFound", expr.value.ident, "")

\* C8: three cases, none matching the scrutinee 2: both prints ran and the
\* result is the third body
C8_Witness ==
    /\ MatchMany
    /\ Len(expr.cases) = 3
    /\ expr.value.k = "Literal"
    /\ expr.value.value = Num(2)
    /\ stdout = "ab"
    /\ res = Ok(String("c"))

\* the last evaluation was an arithmetic BinOp whose operands evaluated
Arith ==
    /\ expr.k = "BinOp"
    /\ expr.op \in ArithOps
    /\ eval_expr(expr.left, before, "").r.ok = "Ok"
    /\ eval_expr(expr.right, eval_expr(expr.left, before, "").vm, "").r.ok = "Ok"

\* the error of each arithmetic operator
CannotOf(op) ==
    CASE op = "Add" -> "CannotAdd"
      [] op = "Sub" -> "CannotSub"
      [] op = "Mul" -> "CannotMul"
      [] op = "Div" -> "CannotDiv"
      [] op = "Mod" -> "CannotMod"

\* C9: add, sub, mul, div and modulo are total: two Numbers yield a Number,
\* every other pair of values, a DefStruct or CallStruct among them, fails
\* with the operator's CannotAdd/Sub/Mul/Div/Mod error
C9_ArithmeticTotal ==
    Arith =>
      LET l == eval_expr(expr.left, before, "")
          r == eval_expr(expr.right, l.vm, "").r.v
      IN  IF l.r.v.t = "Number" /\ r.t = "Number"
          THEN res.ok = "Ok" /\ res.v.t = "Number"
          ELSE res.ok = "Err" /\ res.error = CannotOf(expr.op)

\* every argument of the call is a literal or an identifier
PlainArgs(args) == \A i \in 1..Len(args) : args[i].k \in {"Literal", "Ident"}

\* the value the builtin receives for an argument: an error is made None
Received(a) ==
    LET v == eval_expr(a, before, "").r IN IF v.ok = "Ok" THEN v.v ELSE None

\* the text print writes for the arguments from i on
RECURSIVE Rendered(_, _)
Rendered(args, i) ==
    IF i > Len(args) THEN ""
    ELSE display_value(Received(args[i])).s \o Rendered(args, i + 1)

\* C10: print and println cannot be overridden: a FunDef of either name
\* fails with IsBuiltin and binds nothing, valid parameter list or not; a
\* Call of either name runs the builtin, which returns None having written
\* its arguments (unless one cannot be rendered), also when the name is
\* bound in the user mapping; no function of either name is ever bound
C10_BuiltinsNotOverridable ==
    /\ (expr.k = "FunDef" /\ expr.name \in Builtins) =>
         (res = Err("IsBuiltin", expr.name, "") /\ vm = before)
    /\ (expr.k = "Call" /\ expr.name \in Builtins /\ PlainArgs(expr.args)) =>
         IF \A i \in 1..Len(expr.args) : display_value(Received(expr.args[i])).ok = "Ok"
         THEN /\ res = Ok(None)
              /\ vm = before
              /\ stdout = Rendered(expr.args, 1)
                            \o (IF expr.name = "println" THEN "\n" ELSE "")
         ELSE res.ok = "Panic"
    /\ \A n \in Builtins \cap DOMAIN vm :
         ~(vm[n].t = "Function" /\ vm[n].name = n)

\* C10: print was bound to a value by an earlier evaluation and
\* print(1, "a") still wrote 1a
C10_Witness ==
    /\ expr.k = "Call"
    /\ expr.name = "print"
    /\ "print" \in DOMAIN before
    /\ Len(expr.args) = 2
    /\ res = Ok(None)
    /\ stdout = "1a"

\* the last evaluation was a Call of a builtin
BuiltinCall == expr.k = "Call" /\ expr.name \in Builtins

\* the evaluation of argument n of a call, in the environment the arguments
\* before it left, whatever their results
RECURSIVE ArgsAfter(_, _)
ArgsAfter(args, n) ==
    IF n = 0 THEN Ret(Ok(None), before, "")
    ELSE LET p == ArgsAfter(args, n - 1) IN eval_expr(args[n], p.vm, p.out)

\* the value a builtin is given for argument n
Given(args, n) ==
    LET a == ArgsAfter(args, n).r IN IF a.ok = "Ok" THEN a.v ELSE None

\* the text of the values given for the arguments from n on
RECURSIVE Texts(_, _)
Texts(args, n) ==
    IF n > Len(args) THEN ""
    ELSE display_value(Given(args, n)).s \o Texts(args, n + 1)

\* no argument of the call aborts the evaluator
NoArgPanics(args) == \A n \in 1..Len(args) : ArgsAfter(args, n).r.ok # "Panic"

FirstError(body, k) ==
    /\ \A j \in 1..(k - 1) : ArgsAfter(body, j).r.ok = "Ok"
    /\ ArgsAfter(body, k).r.ok = "Err"

\* C12: when sub-expression k of a Block is the first to fail, the Block
\* fails with that error and leaves the environment as sub-expression k left
\* it when it failed: the effects of those before k are in place and no
\* sub-expression after k is evaluated; a Block none of whose
\* sub-expressions fails has the value of the last
C12_BlockShortCircuits ==
    expr.k = "Block" =>
      /\ \A k \in 1..Len(expr.body) :
           FirstError(expr.body, k) =>
             /\ res = ArgsAfter(expr.body, k).r
             /\ vm = ArgsAfter(expr.body, k).vm
             /\ stdout = ArgsAfter(expr.body, k).out
      /\ (\A j \in 1..Len(expr.body) : ArgsAfter(expr.body, j).r.ok = "Ok") =>
           /\ res = ArgsAfter(expr.body, Len(expr.body)).r
           /\ vm = ArgsAfter(expr.body, Len(expr.body)).vm

\* C12: { y = 1; zz; x = 2 } failed on zz with y bound and x not
C12_Witness ==
    /\ expr.k = "Block"
    /\ Len(expr.body) = 3
    /\ FirstError(expr.body, 2)
    /\ DOMAIN before = {}
    /\ res = Err("VarNotFound", "zz", "")
    /\ DOMAIN vm = {"y"}
    /\ vm["y"] = Num(1)

\* the turns a While of these programs can take
MaxTurns == MaxRange + 1

\* the evaluation of the body in turn n of the last While: it follows the
\* evaluation of the condition in the environment turn n - 1 left
RECURSIVE WhileTurn(_)
WhileTurn(n) ==
    IF n = 0 THEN Ret(Ok(None), before, "")
    ELSE LET p == WhileTurn(n - 1)
             c == eval_expr(expr.cond, p.vm, p.out)
         IN  eval_expr(expr.body, c.vm, c.out)

\* the evaluation of the condition after n turns
CondAfter(n) == eval_expr(expr.cond, WhileTurn(n).vm, WhileTurn(n).out)

\* a result that is exactly Bool(true)
IsTrue(r) == r.ok = "Ok" /\ r.v.t = "Bool" /\ r.v.b

\* the condition yielded true n times, the body succeeding each time, and
\* then another value
StopsAfter(n) ==
    /\ \A j \in 0..(n - 1) : IsTrue(CondAfter(j).r) /\ WhileTurn(j + 1).r.ok = "Ok"
    /\ CondAfter(n).r.ok = "Ok"
    /\ ~IsTrue(CondAfter(n).r)

\* C13: While evaluates cond before each turn and body once for each time
\* cond yielded Bool(true), all in the same environment; the first time
\* cond yields another value, Bool(false) or not a Bool, the loop stops
\* without error with the result None, and the environment is the one the
\* turns and that last evaluation of cond left
C13_WhileStopsOnNonTrue ==
    expr.k = "While" =>
      /\ \A n \in 0..MaxTurns :
           StopsAfter(n) =>
             /\ res = Ok(None)
             /\ vm = CondAfter(n).vm
             /\ stdout = CondAfter(n).out
      /\ res.ok = "Ok" => res.v = None

\* C13: the loop took a turn for each value of x below the limit; x and the
\* i bound by the body are in the environment after it
C13_Witness ==
    /\ expr.k = "While"
    /\ StopsAfter(MaxRange - 1)
    /\ before["x"] = Num(1)
    /\ "i" \notin DOMAIN before
    /\ res = Ok(None)
    /\ vm["x"] = Num(MaxRange)
    /\ vm["i"] = Num(0)

\* the environment in which the body of the called function starts, when
\* every parameter has been bound
BodyStart ==
    LET f == before[expr.name]
    IN  call_bind(f.args, expr.args, 1, call_vm(f, before), before, "").r

\* the last evaluation called a user function and its body started
BodyStarted == UserCall /\ BodyStart.ok = "Ok"

\* the function value is bound to name n in environment env
BoundTo(env, n, f) == n \in DOMAIN env /\ env[n].t = "Function" /\ env[n] = f

\* C14, as the specification states it: the body of every called function
\* starts with the function bound under its own name, whatever the
\* parameter list
C14_OwnNameAlwaysBound ==
    BodyStarted =>
      BoundTo(BodyStart.v, before[expr.name].name, before[expr.name])

\* C14: the body of a called function starts with the function bound under
\* its own name, so the body can name and call it, for every parameter list
\* that does not declare that name; a parameter of that name is bound to its
\* argument instead
C14_OwnNameBoundUnlessParameter ==
    BodyStarted =>
      LET f == before[expr.name]
      IN  /\ f.name \notin Elems(f.args) =>
               /\ BoundTo(BodyStart.v, f.name, f)
               /\ (f.body.k = "Ident" /\ f.body.ident = f.name) => res = Ok(f)
               /\ eval_expr(ExprCall(f.name, expr.args), BodyStart.v, "").r
                    \notin { Err("FunctionNotFound", f.name, ""),
                             TypeMismatch("function", "Int") }
          /\ \A i \in 1..Len(f.args) :
               (f.args[i] = f.name /\ \A j \in (i + 1)..Len(f.args) : f.args[j] # f.name) =>
                 BodyStart.v[f.name] = ArgsAfter(expr.args, i).r.v

\* C14: the function that calls itself with a - 1 until a < 1 returned 0
C14_Witness ==
    /\ BodyStarted
    /\ before[expr.name].body.k = "IfThenElse"
    /\ Len(expr.args) = 1
    /\ expr.args[1].k = "Literal"
    /\ expr.args[1].value = Num(MaxRange)
    /\ res = Ok(Num(0))

\* the last evaluation called a method the struct of the instance has
MethodCall ==
    /\ expr.k = "GetFunc"
    /\ expr.name \in DOMAIN before
    /\ before[expr.name].t = "CallStruct"
    /\ before[expr.name].name \in DOMAIN before
    /\ before[before[expr.name].name].t = "DefStruct"
    /\ expr.func \in DOMAIN before[before[expr.name].name].function

\* the struct of the instance and the method called
StructOf == before[before[expr.name].name]
MethodOf == StructOf.function[expr.func]

\* the smaller of two numbers
Min(a, b) == IF a < b THEN a ELSE b

\* self and the first k declared fields of the struct, each bound to the
\* argument at its position
RECURSIVE MethodEnv(_)
MethodEnv(k) ==
    IF k = 0 THEN "self" :> before[expr.name]
    ELSE (StructOf.fields[k] :> eval_expr(expr.args[k], before, "").r.v)
           @@ MethodEnv(k - 1)

\* C15: GetFunc evaluates the method body in an environment of its own that
\* holds self, bound to the instance, and the i-th declared field of the
\* struct bound to the i-th argument, for i up to the shorter of the two
\* lists, and nothing else: the method's parameters are bound only where
\* they are such fields
C15_MethodBodySeesSelfAndFields ==
    ( /\ MethodCall
      /\ PlainArgs(expr.args)
      /\ \A i \in 1..Len(expr.args) : eval_expr(expr.args[i], before, "").r.ok = "Ok" ) =>
      LET k == Min(Len(expr.args), Len(StructOf.fields))
      IN  /\ res = eval_expr(MethodOf.body, MethodEnv(k), "").r
          /\ \A a \in Elems(MethodOf.args) \ Elems(SubSeq(StructOf.fields, 1, k)) :
               (MethodOf.body.k = "Ident" /\ MethodOf.body.ident = a) =>
                 res = Err("VarNotFound", a, "")
          /\ vm = before

\* C15: n(a), whose body is a, called with 5 on an instance of S{x, y}: a is
\* not bound
C15_Witness ==
    /\ MethodCall
    /\ expr.func = "n"
    /\ Len(expr.args) = 1
    /\ PlainArgs(expr.args)
    /\ MethodOf.args = <<"a">>
    /\ res = Err("VarNotFound", "a", "")

\* every expression of the sequence succeeds, each evaluated in the
\* environment those before it left
AllSucceed(exprs) == \A n \in 1..Len(exprs) : ArgsAfter(exprs, n).r.ok = "Ok"

\* C16: GetFunc evaluates its arguments in the caller's environment, one
\* after the other: what an argument binds or overwrites is in the caller's
\* environment after the method call, and the arguments after it see it
C16_MethodArgsInCallerEnv ==
    (MethodCall /\ AllSucceed(expr.args)) =>
      vm = ArgsAfter(expr.args, Len(expr.args)).vm

\* the expressions of the pairs of a CallStruct node
PairValues(args) == [i \in 1..Len(args) |-> args[i].value]

\* the position of the last pair with the given name
LastIndex(args, n) ==
    CHOOSE i \in 1..Len(args) :
       /\ args[i].arg.ident = n
       /\ \A j \in (i + 1)..Len(args) : args[j].arg.ident # n

\* C17: CallStruct evaluates the expression of each pair exactly once, a
\* declared field or not: its effects on the environment and its output
\* occur once for each pair, and the value kept for a field is the value of
\* that evaluation
C17_PairsEvaluatedOnce ==
    ( /\ Construct
      /\ \A i \in 1..Len(expr.args) : expr.args[i].arg.k = "Ident"
      /\ AllSucceed(PairValues(expr.args)) ) =>
      /\ res.ok = "Ok"
      /\ vm = ArgsAfter(PairValues(expr.args), Len(expr.args)).vm
      /\ stdout = ArgsAfter(PairValues(expr.args), Len(expr.args)).out
      /\ \A n \in DOMAIN res.v.fields :
           res.v.fields[n] =
             ArgsAfter(PairValues(expr.args), LastIndex(expr.args, n)).r.v

\* the last evaluation was an Impl on a name bound to a struct, with
\* identifiers for parameters
ImplOnStruct ==
    /\ expr.k = "Impl"
    /\ expr.name_struct \in DOMAIN before
    /\ before[expr.name_struct].t = "DefStruct"
    /\ AllIdent(expr.args)

FunctionCall ==
    /\ expr.k = "Call"
    /\ expr.name \notin Builtins
    /\ expr.name \in DOMAIN before
    /\ before[expr.name].t = "Function"

\* the number of arguments the call evaluates: one for each parameter, up
\* to the first that fails or is missing
Evaluated ==
    LET m == Min(Len(before[expr.name].args), Len(expr.args))
        failed == { k \in 1..m : ArgsAfter(expr.args, k).r.ok # "Ok" }
    IN  IF failed = {} THEN m ELSE CHOOSE k \in failed : \A j \in failed : k <= j

\* C19: a Call of a user function leaves the caller's environment as the
\* evaluation of the arguments left it, whether the Call returns a value or
\* fails: nothing the body binds, overwrites or defines reaches the caller
C19_CallLeavesCallerAlone ==
    FunctionCall => vm = ArgsAfter(expr.args, Evaluated).vm

\* C19: the body rebound its parameter, looped, defined a function and a
\* struct with a method and bound x to 9: the caller still has x = 1 and
\* nothing new
C19_Witness ==
    /\ FunctionCall
    /\ before[expr.name].body.k = "Block"
    /\ Len(before[expr.name].body.body) = 8
    /\ "x" \in DOMAIN before
    /\ before["x"] = Num(1)
    /\ res = Ok(Num(9))
    /\ vm = before

\* C20: a Call with fewer arguments than the function has parameters, whose
\* arguments all succeed, returns neither a value nor an error: it aborts on
\* the argument list, after the arguments given were evaluated in the
\* caller's environment
C20_TooFewArgumentsAbort ==
    ( /\ FunctionCall
      /\ Len(expr.args) < Len(before[expr.name].args)
      /\ AllSucceed(expr.args) ) =>
      /\ res.ok = "Panic"
      /\ vm = ArgsAfter(expr.args, Len(expr.args)).vm

\* C20: f(a, b) called with w = 1 alone aborted, and w is bound
C20_Witness ==
    /\ FunctionCall
    /\ Len(before[expr.name].args) = 2
    /\ Len(expr.args) = 1
    /\ "w" \notin DOMAIN before
    /\ res.ok = "Panic"
    /\ "w" \in DOMAIN vm
    /\ vm["w"] = Num(1)

\* the error of a GetFunc whose instance or struct definition is not found
StructUnknown == TypeMismatch("struct", "unknown")

\* the environment the body of the called function starts in: the function
\* under its own name, then each of the first k parameters bound to its
\* argument
RECURSIVE CalleeEnv(_)
CalleeEnv(k) ==
    IF k = 0 THEN before[expr.name].name :> before[expr.name]
    ELSE (before[expr.name].args[k] :> ArgsAfter(expr.args, k).r.v) @@ CalleeEnv(k - 1)

\* the last evaluation called a user function whose parameters were all bound
CalleeStarted ==
    /\ UserCall
    /\ \A k \in 1..Len(before[expr.name].args) : ArgsAfter(expr.args, k).r.ok = "Ok"

\* the last evaluation called a method with literal or identifier arguments
\* that all have a value
MethodStarted ==
    /\ MethodCall
    /\ PlainArgs(expr.args)
    /\ \A i \in 1..Len(expr.args) : eval_expr(expr.args[i], before, "").r.ok = "Ok"

\* the last evaluation was a Match whose scrutinee has a value and whose
\* cases before case i all ran to a value
ArmStarted(i) ==
    /\ expr.k = "Match"
    /\ i \in 1..Len(expr.cases)
    /\ \A j \in 1..i : expr.cases[j].pat.k = "Literal"
    /\ eval_expr(expr.value, before, "").r.ok = "Ok"
    /\ \A j \in 1..(i - 1) : eval_expr(expr.cases[j].body, <<>>, "").r.ok = "Ok"

\* a body that is a node of kind k, alone or as the last expression of a Block
EndsWith(b, k) ==
    \/ b.k = k
    \/ b.k = "Block" /\ Len(b.body) > 0 /\ b.body[Len(b.body)].k = k

\* the last expression of such a body, and the expressions before it
LastOf(b) == IF b.k = "Block" THEN b.body[Len(b.body)] ELSE b
LeadOf(b) == IF b.k = "Block" THEN SubSeq(b.body, 1, Len(b.body) - 1) ELSE <<>>

\* the evaluation of the first n expressions from environment env, up to
\* the first that fails
RECURSIVE EnvAfter(_, _, _)
EnvAfter(exprs, n, env) ==
    IF n = 0 THEN Ret(Ok(None), env, "")
    ELSE LET p == EnvAfter(exprs, n - 1, env)
         IN  IF p.r.ok # "Ok" THEN p ELSE eval_expr(exprs[n], p.vm, p.out)

\* the environment in which the last expression of body b is evaluated,
\* when the body starts in env
EnvAt(b, env) == EnvAfter(LeadOf(b), Len(LeadOf(b)), env)

\* name is bound to an instance in env
HasInstance(env, name) == name \in DOMAIN env /\ env[name].t = "CallStruct"

\* name is bound to an instance in env and the name of its struct is bound
\* to a struct definition there
Resolves(env, name) ==
    /\ HasInstance(env, name)
    /\ env[name].name \in DOMAIN env
    /\ env[env[name].name].t = "DefStruct"

\* the expressions of body b before the last have bound the name of the
\* instance's struct to a struct definition
BoundByBody(b, env, name) ==
    /\ Resolves(env, name)
    /\ env[name].name \in TargetsOfAll(LeadOf(b))

\* the GetFunc at the end of body b, started in environment start, fails
\* with TypeMismatch unless the body has bound the struct's name
FailsUnlessBodyBinds(b, start) ==
    ( /\ EndsWith(b, "GetFunc")
      /\ EnvAt(b, start).r.ok = "Ok"
      /\ ~BoundByBody(b, EnvAt(b, start).vm, LastOf(b).name) ) =>
      res = StructUnknown

\* C21, as the specification states it: a GetFunc in the body of a user
\* function or of a method fails with TypeMismatch for every instance and
\* method name unless that body itself has first bound the struct's name to
\* a struct definition
C21_DispatchFailsUnlessBodyBinds ==
    /\ CalleeStarted =>
         FailsUnlessBodyBinds(before[expr.name].body,
                              CalleeEnv(Len(before[expr.name].args)))
    /\ MethodStarted =>
         FailsUnlessBodyBinds(MethodOf.body,
                              MethodEnv(Min(Len(expr.args), Len(StructOf.fields))))

\* the GetFunc or GetAttr at the end of body b, started in environment
\* start: the GetFunc fails with TypeMismatch exactly when the instance or
\* the definition of its struct is not bound where it is evaluated (when it
\* is the result, a method of a literal body then returns its value); the
\* GetAttr returns the attribute of an instance bound there
Dispatches(b, start, last) ==
    LET at == EnvAt(b, start)
        g == LastOf(b)
    IN  /\ (EndsWith(b, "GetFunc") /\ at.r.ok = "Ok") =>
             IF ~Resolves(at.vm, g.name) THEN res = StructUnknown
             ELSE ( /\ last
                    /\ PlainArgs(g.args)
                    /\ g.func \in DOMAIN at.vm[at.vm[g.name].name].function
                    /\ at.vm[at.vm[g.name].name].function[g.func].body.k = "Literal" ) =>
                    res = Ok(at.vm[at.vm[g.name].name].function[g.func].body.value)
        /\ ( /\ EndsWith(b, "GetAttr")
             /\ at.r.ok = "Ok"
             /\ last
             /\ HasInstance(at.vm, g.name)
             /\ g.attr \in DOMAIN at.vm[g.name].fields ) =>
             res = Ok(at.vm[g.name].fields[g.attr])

\* C21: the body of a user function starts with the function and its
\* parameters only, a method body with self and the leading fields only, a
\* match arm with nothing.  A GetFunc there fails with TypeMismatch for every
\* instance and method name unless the name of the instance's struct is
\* bound to a struct definition in that environment: by the body itself, or
\* by a parameter (in a method, a declared field) of that name whose argument
\* is the definition.  GetAttr on an instance bound there returns its
\* attribute
C21_DispatchNeedsStructInScope ==
    /\ CalleeStarted =>
         Dispatches(before[expr.name].body, CalleeEnv(Len(before[expr.name].args)), TRUE)
    /\ MethodStarted =>
         Dispatches(MethodOf.body, MethodEnv(Min(Len(expr.args), Len(StructOf.fields))),
                    TRUE)
    /\ \A i \in 1..MaxList :
         ArmStarted(i) => Dispatches(expr.cases[i].body, <<>>, i = Len(expr.cases))

\* a function whose body dispatches on its parameter is given an instance:
\* the dispatch fails, the struct not being in the body's environment
C21_Witness ==
    /\ CalleeStarted
    /\ before[expr.name].body.k = "GetFunc"
    /\ HasInstance(CalleeEnv(Len(before[expr.name].args)), before[expr.name].body.name)
    /\ before[expr.name].args = <<"a">>
    /\ res = StructUnknown


=============================================================================
